---------------------------- MODULE Spec2Model ----------------------------
(***************************************************************************)
(* Verification model of the portfolio simulator:                          *)
(*   - Portfolio (PortfolioSimulator_OneClick/src/portfolio.py)            *)
(*   - structured-note payoffs (.../structured_notes.py)                   *)
(*   - note selection (.../simulation.py, _get_note_for_year)              *)
(*   - the batch sweep and its simulation runs (run_simulations.py)        *)
(*   - the withdrawal strategies (src/retirement.py)                       *)
(*   - PortfolioSimulation.run_simulation and the maximum drawdown         *)
(*   - the Portfolio constructor on arbitrary allocation maps              *)
(*   - participation-rate pricing (note_calculator.py)                     *)
(*   - the command-line entry point's withdrawal setup (.../main.py)       *)
(*   - the note return as the sweep and as the engine compute it           *)
(*                                                                         *)
(* Numbers.  The program computes in binary floating point.  The model     *)
(* computes in exact rational arithmetic: a number is a pair <<n, d>> in   *)
(* lowest terms with d > 0, and <<0, 0>> is the IEEE not-a-number.  Claims *)
(* stated "to floating tolerance" are checked as exact equalities of the   *)
(* rationals; rounding error of the floats is outside the model.           *)
(***************************************************************************)
EXTENDS Integers, Sequences, FiniteSets, TLC

VARIABLES
    portfolio,   \* the Portfolio object's fields, or NoObject
    numeric,     \* "python" | "numpy": scalar type of portfolio.current_value
    last,        \* the last call made on the portfolio and its outcome
    ncalls,      \* number of calls made on the portfolio so far
    note,        \* the StructuredNote object made by create_note, or NoObject
    payoff,      \* the last payoff evaluation: its function, inputs and result
    sim,         \* PortfolioSimulation fields read by _get_note_for_year
    selected,    \* the last _get_note_for_year call: its year and the dict returned
    params,      \* the sweep configuration (the YAML document)
    market_data, \* the market data the sweep was started with
    sim_params_list, \* the list generate_simulation_parameters returned
    submitted,   \* the sim_params handed to executor.submit, in order
    sweep_pc,    \* where run_all_simulations stands
    run_params,  \* the sim_params of one run_single_simulation call
    run_data,    \* the market data frames that call reads
    yearly_results, \* its list of yearly records so far
    run_status,  \* "running" | "done" (returned) | "failed" (raised)
    summary_stats, \* the summary the call merged into sim_params, or NoObject
    tasks,       \* run_all_simulations: the sim_params submitted to the pool, in order
    pool_params, \* the configuration run_all_simulations was called with
    pool_data,   \* the market data run_all_simulations was called with
    num_workers, \* max_workers of the ProcessPoolExecutor
    workers,     \* per future: the state of its run_single_simulation call in a worker process
    collected,   \* the futures the as_completed loop has dealt with
    saving,      \* the future whose result save_simulation_results is writing, or 0
    connections, \* the open sqlite connections (transactions), by owner
    db,          \* the committed rows of the tables simulations and yearly_results
    error_log,   \* the futures logged by the except clause of the loop
    saved,       \* the futures counted by "count += 1"
    pool_pc,     \* "idle" | "loop" | "finished"
    clock,       \* the wall clock read by datetime.now()
    previous_db, \* the tables an earlier sweep over the same inputs produced, or NoObject
    io_failures, \* number of writes the environment has failed so far
    strategy,    \* a WithdrawalStrategy object's fields, or NoObject
    whist,       \* the calculate_withdrawal calls made on it: arguments and result
    value_path,  \* a sequence of portfolio values, oldest first
    drawdowns,   \* the last maximum-drawdown computation over it and its result
    simulation,  \* a PortfolioSimulation object: its fields, portfolios, results and strategy
    loop,        \* where its run_simulation call stands: year, portfolio, next statement
    steps,       \* the statements run_simulation has executed on the portfolios, in order
    constructed, \* the last Portfolio(...) call: its arguments and the object made, or the exception
    pricing,     \* the last calculate_participation_rate call: its arguments and its outcome
    entry,       \* the last run of the entry point: its arguments, the withdrawal parameters and the strategy made
    compared     \* the last note return computed both ways: the inputs, the sweep's value and the engine's

pvars == <<portfolio, numeric, last, ncalls>>

nvars == <<note, payoff>>

svars == <<sim, selected>>

gvars == <<params, market_data, sim_params_list, submitted, sweep_pc>>

rvars == <<run_params, run_data, yearly_results, run_status, summary_stats>>

cvars == <<tasks, pool_params, pool_data, num_workers, workers, collected, saving, connections, db,
           error_log, saved, pool_pc, clock, previous_db, io_failures>>

wvars == <<strategy, whist>>

dvars == <<value_path, drawdowns>>

mvars == <<simulation, loop, steps>>

kvars == <<constructed>>

bvars == <<pricing>>

evars == <<entry>>

xvars == <<compared>>

vars == <<pvars, nvars, svars, gvars, rvars, cvars, wvars, dvars, mvars, kvars, bvars, evars, xvars>>

\* what the actions of one component leave alone
notPortfolio == <<nvars, svars, gvars, rvars, cvars, wvars, dvars, mvars, kvars, bvars, evars, xvars>>

notNotes == <<pvars, svars, gvars, rvars, cvars, wvars, dvars, mvars, kvars, bvars, evars, xvars>>

notSelection == <<pvars, nvars, gvars, rvars, cvars, wvars, dvars, mvars, kvars, bvars, evars, xvars>>

notSweep == <<pvars, nvars, svars, rvars, cvars, wvars, dvars, mvars, kvars, bvars, evars, xvars>>

notRun == <<pvars, nvars, svars, gvars, cvars, wvars, dvars, mvars, kvars, bvars, evars, xvars>>

notPool == <<pvars, nvars, svars, gvars, rvars, wvars, dvars, mvars, kvars, bvars, evars, xvars>>

notStrategy == <<pvars, nvars, svars, gvars, rvars, cvars, dvars, mvars, kvars, bvars, evars, xvars>>

notDrawdown == <<pvars, nvars, svars, gvars, rvars, cvars, wvars, mvars, kvars, bvars, evars, xvars>>

notSimulation == <<pvars, nvars, svars, gvars, rvars, cvars, wvars, dvars, kvars, bvars, evars, xvars>>

notConstruction == <<pvars, nvars, svars, gvars, rvars, cvars, wvars, dvars, mvars, bvars, evars, xvars>>

notPricing == <<pvars, nvars, svars, gvars, rvars, cvars, wvars, dvars, mvars, kvars, evars, xvars>>

notEntry == <<pvars, nvars, svars, gvars, rvars, cvars, wvars, dvars, mvars, kvars, bvars, xvars>>

notCompare == <<pvars, nvars, svars, gvars, rvars, cvars, wvars, dvars, mvars, kvars, bvars, evars>>

-----------------------------------------------------------------------------
(* Exact rationals standing for the program's floats *)

RECURSIVE GCD(_, _)
GCD(a, b) == IF b = 0 THEN a ELSE GCD(b, a % b)

IAbs(i) == IF i < 0 THEN -i ELSE i

NaN == <<0, 0>>

IsNaN(x) == x[2] = 0

Rat(n, d) ==
    IF d = 0 THEN NaN
    ELSE LET s == IF d < 0 THEN -1 ELSE 1
             g == GCD(IAbs(n), IAbs(d))
         IN  <<(s * n) \div g, (s * d) \div g>>

Num(i) == <<i, 1>>

Zero == Num(0)

One == Num(1)

\* the sum and the product are formed over the least common denominator and
\* after cancelling, so that only the results have to fit TLC's integers
RAdd(x, y) ==
    IF IsNaN(x) \/ IsNaN(y) THEN NaN
    ELSE LET g == GCD(x[2], y[2])
         IN  Rat(x[1] * (y[2] \div g) + y[1] * (x[2] \div g), (x[2] \div g) * y[2])

RNeg(x) == IF IsNaN(x) THEN NaN ELSE <<-x[1], x[2]>>

RSub(x, y) == RAdd(x, RNeg(y))

RMul(x, y) ==
    IF IsNaN(x) \/ IsNaN(y) THEN NaN
    ELSE LET g1 == GCD(IAbs(x[1]), y[2])
             g2 == GCD(IAbs(y[1]), x[2])
         IN  Rat((x[1] \div g1) * (y[1] \div g2), (x[2] \div g2) * (y[2] \div g1))

\* x / y for y # 0 (the callers decide what a zero divisor does)
RDiv(x, y) ==
    IF IsNaN(x) \/ IsNaN(y) THEN NaN
    ELSE RMul(x, Rat(y[2], y[1]))

\* IEEE comparisons: every comparison with a NaN is false
RLt(x, y) ==
    /\ ~IsNaN(x) /\ ~IsNaN(y)
    /\ LET g == GCD(x[2], y[2])
       IN  x[1] * (y[2] \div g) < y[1] * (x[2] \div g)

RLe(x, y) ==
    /\ ~IsNaN(x) /\ ~IsNaN(y)
    /\ LET g == GCD(x[2], y[2])
       IN  x[1] * (y[2] \div g) <= y[1] * (x[2] \div g)

REq(x, y) == ~IsNaN(x) /\ ~IsNaN(y) /\ x = y

\* Python's builtins: min(a, b) is b only when b < a, max(a, b) is b only when b > a
PyMin(a, b) == IF RLt(b, a) THEN b ELSE a

PyMax(a, b) == IF RLt(a, b) THEN b ELSE a

\* Python's abs()
RAbs(x) == IF IsNaN(x) THEN NaN ELSE <<IAbs(x[1]), x[2]>>

\* Python's sum() over the values of a dict
RECURSIVE RSum(_)
RSum(f) ==
    IF DOMAIN f = {} THEN Zero
    ELSE LET k == CHOOSE a \in DOMAIN f : TRUE
         IN  RAdd(f[k], RSum([a \in DOMAIN f \ {k} |-> f[a]]))

-----------------------------------------------------------------------------
(* Portfolio *)

NoObject == [class |-> "none"]

NoCall == [op |-> "none"]

\* Portfolio._validate_allocations: weights that do not sum to 1 are divided
\* by their total.  The weights of the model lie on a grid far coarser than
\* np.isclose's tolerance, so "close to 1" is "equal to 1" here.
ValidateAllocations(allocations) ==
    LET total == RSum(allocations)
    IN  IF total # One
        THEN [a \in DOMAIN allocations |-> RDiv(allocations[a], total)]
        ELSE allocations

\* Portfolio.rebalance: asset_values[a] = current_value * allocations[a]
Rebalanced(p) ==
    [p EXCEPT !.asset_values =
        [a \in DOMAIN p.allocations |-> RMul(p.current_value, p.allocations[a])]]

\* Portfolio.__init__
NewPortfolio(initial_value, allocations) ==
    Rebalanced([initial_value |-> initial_value,
                allocations   |-> ValidateAllocations(allocations),
                current_value |-> initial_value,
                prev_value    |-> initial_value,
                asset_values  |-> << >>])

\* Portfolio.apply_returns: assets missing from returns_dict keep their value
AppliedReturns(p, returns_dict) ==
    LET vals == [a \in DOMAIN p.asset_values |->
                    IF a \in DOMAIN returns_dict
                    THEN RMul(p.asset_values[a], RAdd(One, returns_dict[a]))
                    ELSE p.asset_values[a]]
    IN  [p EXCEPT !.prev_value    = p.current_value,
                  !.asset_values  = vals,
                  !.current_value = RSum(vals)]

\* Portfolio.withdraw, line 97: the cap
ActualWithdrawal(p, amount) == PyMin(amount, p.current_value)

\* Portfolio.withdraw, line 103: the division by current_value raises
\* ZeroDivisionError on Python numbers and yields a NaN on numpy scalars
\* (the only zero divisor is 0/0: the cap makes actual = 0 when the value is 0)
WithdrawRaises(p, amount, num) ==
    /\ RLt(Zero, amount)
    /\ p.current_value = Zero
    /\ num = "python"

WithdrawalRatio(p, amount) ==
    IF p.current_value = Zero THEN NaN
    ELSE RDiv(ActualWithdrawal(p, amount), p.current_value)

\* Portfolio.withdraw, lines 105-111, for a call that gets that far
Withdrawn(p, amount) ==
    LET ratio == WithdrawalRatio(p, amount)
    IN  [p EXCEPT !.asset_values =
                      [a \in DOMAIN p.asset_values |->
                          RSub(p.asset_values[a], RMul(p.asset_values[a], ratio))],
                  !.current_value = RSub(p.current_value, ActualWithdrawal(p, amount))]

\* np.isclose(x, 0): |x| <= 1e-8, false for a NaN.  The values of the model
\* lie on a grid far coarser than the tolerance.
IsCloseToZero(x) == x = Zero

\* the shares of a portfolio measured against the value it was created with
SharesOfInitialValue(p) ==
    [a \in DOMAIN p.asset_values |-> RDiv(p.asset_values[a], p.initial_value)]

\* Portfolio.get_asset_allocations
GetAssetAllocations(p) ==
    IF IsCloseToZero(p.current_value)
    THEN [a \in DOMAIN p.asset_values |-> Zero]
    ELSE [a \in DOMAIN p.asset_values |-> RDiv(p.asset_values[a], p.current_value)]


-----------------------------------------------------------------------------
(* The calls made on one Portfolio, in any order *)

MaxCalls == 3

InitialValues == {Zero, Num(100)}

\* raw allocation maps handed to the constructor (the third sums to 4)
AllocationMaps ==
    { [sp500 |-> Rat(1, 2), bonds |-> Rat(1, 2)],
      [sp500 |-> Rat(1, 2), bonds |-> Rat(1, 4), notes |-> Rat(1, 4)],
      [sp500 |-> Num(3), bonds |-> One] }

ReturnValues == {Num(-1), Rat(1, 2)}

ReturnDicts ==
    UNION { [D -> ReturnValues] : D \in {{"sp500", "bonds", "notes"}, {"sp500"}} }

Amounts == {Zero, Num(50), Num(500)}

PortfolioInit ==
    /\ \E v \in InitialValues, al \in AllocationMaps :
           portfolio = NewPortfolio(v, al)
    /\ numeric \in {"python", "numpy"}
    /\ last = NoCall
    /\ ncalls = 0

rebalance ==
    /\ ncalls < MaxCalls
    /\ portfolio' = Rebalanced(portfolio)
    /\ last' = [op |-> "rebalance", raised |-> FALSE]
    /\ ncalls' = ncalls + 1
    /\ UNCHANGED <<numeric, notPortfolio>>

\* returns read from the data files are numpy scalars, and every sum they
\* enter becomes one; returns given as Python floats leave the type alone
apply_returns ==
    /\ ncalls < MaxCalls
    /\ \E returns_dict \in ReturnDicts, rtype \in {"python", "numpy"} :
          /\ portfolio' = AppliedReturns(portfolio, returns_dict)
          /\ numeric' = IF rtype = "numpy" THEN "numpy" ELSE numeric
          /\ last' = [op |-> "apply_returns", raised |-> FALSE,
                      returned |-> portfolio'.current_value]
    /\ ncalls' = ncalls + 1
    /\ UNCHANGED notPortfolio

withdraw ==
    /\ ncalls < MaxCalls
    /\ \E amount \in Amounts :
          IF RLe(amount, Zero)
          THEN /\ last' = [op |-> "withdraw", raised |-> FALSE, amount |-> amount,
                           pre_value |-> portfolio.current_value, returned |-> Zero]
               /\ UNCHANGED portfolio
          ELSE IF WithdrawRaises(portfolio, amount, numeric)
          THEN /\ last' = [op |-> "withdraw", raised |-> TRUE, amount |-> amount,
                           pre_value |-> portfolio.current_value]
               /\ UNCHANGED portfolio
          ELSE /\ last' = [op |-> "withdraw", raised |-> FALSE, amount |-> amount,
                           pre_value |-> portfolio.current_value,
                           returned |-> ActualWithdrawal(portfolio, amount)]
               /\ portfolio' = Withdrawn(portfolio, amount)
    /\ ncalls' = ncalls + 1
    /\ UNCHANGED <<numeric, notPortfolio>>

PortfolioNext == rebalance \/ apply_returns \/ withdraw

PortfolioIdle ==
    /\ portfolio = NoObject
    /\ numeric = "python"
    /\ last = NoCall
    /\ ncalls = 0

-----------------------------------------------------------------------------
(* Structured notes *)

\* str.lower() on the protection-type strings the model uses
Lower(s) ==
    CASE s = "Buffer" -> "buffer"
      [] s = "Floor"  -> "floor"
      [] s = "FLOOR"  -> "floor"
      [] OTHER        -> s

\* dict.get(key, default)
Get(dict, key, default) ==
    IF key \in DOMAIN dict THEN dict[key] ELSE default

\* StructuredNote.__init__ behind create_note: the subclass is chosen from the
\* lower-cased protection_type, an unknown type falls back to BufferedNote
CreateNote(note_params) ==
    LET protection_type == Lower(Get(note_params, "protection_type", "Buffer"))
    IN  [class |-> IF protection_type = "floor" THEN "FlooredNote"
                   ELSE "BufferedNote",
         participation_rate |-> Get(note_params, "participation_rate", One),
         protection_level   |-> Get(note_params, "protection_level", Zero),
         protection_type    |-> Get(note_params, "protection_type", "Buffer")]

\* BufferedNote.calculate_return with the whole loss passed through beyond the buffer
BufferedNoteReturnNoBuffer(n, underlying_return) ==
    IF RLt(Zero, underlying_return)
    THEN RMul(underlying_return, n.participation_rate)
    ELSE IF RLe(RAbs(underlying_return), n.protection_level)
         THEN Zero
         ELSE RNeg(RAbs(underlying_return))

\* BufferedNote.calculate_return
BufferedNoteReturn(n, underlying_return) ==
    IF RLt(Zero, underlying_return)
    THEN RMul(underlying_return, n.participation_rate)
    ELSE LET abs_return == RAbs(underlying_return)
         IN  IF RLe(abs_return, n.protection_level)
             THEN Zero
             ELSE RNeg(RSub(abs_return, n.protection_level))

\* FlooredNote.calculate_return with an upside that ignores the participation rate
FlooredNoteReturnUnscaled(n, underlying_return) ==
    IF RLt(Zero, underlying_return)
    THEN underlying_return
    ELSE PyMax(underlying_return, RNeg(n.protection_level))

\* FlooredNote.calculate_return with min() in place of max()
FlooredNoteReturnMin(n, underlying_return) ==
    IF RLt(Zero, underlying_return)
    THEN RMul(underlying_return, n.participation_rate)
    ELSE PyMin(underlying_return, RNeg(n.protection_level))

\* FlooredNote.calculate_return
FlooredNoteReturn(n, underlying_return) ==
    IF RLt(Zero, underlying_return)
    THEN RMul(underlying_return, n.participation_rate)
    ELSE PyMax(underlying_return, RNeg(n.protection_level))

\* note.calculate_return(underlying_return), dispatched on the note's class
CalculateReturn(n, underlying_return) ==
    IF n.class = "FlooredNote"
    THEN FlooredNoteReturn(n, underlying_return)
    ELSE BufferedNoteReturn(n, underlying_return)

\* simple_note_payoff
SimpleNotePayoff(underlying_return, participation_rate, protection_level, protection_type) ==
    IF RLt(Zero, underlying_return)
    THEN RMul(underlying_return, participation_rate)
    ELSE IF Lower(protection_type) = "floor"
    THEN PyMax(underlying_return, RNeg(protection_level))
    ELSE IF RLe(RAbs(underlying_return), protection_level)
         THEN Zero
         ELSE RNeg(RSub(RAbs(underlying_return), protection_level))

ParticipationRates == {Zero, Rat(9, 10), Num(2)}

ProtectionLevels == {Zero, Rat(1, 10), Rat(1, 4)}

ProtectionTypes == {"Buffer", "Floor", "FLOOR", "Digital"}

UnderlyingReturns ==
    {Rat(-1, 4), Rat(-15, 100), Rat(-1, 10), Rat(-8, 100), Rat(-5, 100), Zero,
     Rat(8, 100), Rat(1, 4)}

\* the parameter dicts handed to create_note: any of the keys may be absent
NoteParams ==
    { [k \in K |-> full[k]] :
        full \in [participation_rate : ParticipationRates,
                  protection_level : ProtectionLevels,
                  protection_type : ProtectionTypes],
        K \in SUBSET {"participation_rate", "protection_level", "protection_type"} }

NotesInit ==
    /\ note = NoObject
    /\ payoff = NoCall

NotesIdle == NotesInit

create_note ==
    /\ \E note_params \in NoteParams : note' = CreateNote(note_params)
    /\ payoff' = NoCall
    /\ UNCHANGED notNotes

calculate_return ==
    /\ note # NoObject
    /\ \E u \in UnderlyingReturns :
          payoff' = [op |-> "calculate_return", underlying_return |-> u,
                     result |-> CalculateReturn(note, u)]
    /\ UNCHANGED <<note, notNotes>>

simple_note_payoff ==
    /\ \E u \in UnderlyingReturns, pr \in ParticipationRates,
          pl \in ProtectionLevels, pt \in ProtectionTypes :
          payoff' = [op |-> "simple_note_payoff", underlying_return |-> u,
                     participation_rate |-> pr, protection_level |-> pl,
                     protection_type |-> pt,
                     result |-> SimpleNotePayoff(u, pr, pl, pt)]
    /\ note' = NoObject
    /\ UNCHANGED notNotes

NotesNext == create_note \/ calculate_return \/ simple_note_payoff

-----------------------------------------------------------------------------
(* Note selection: PortfolioSimulation._get_note_for_year *)

MaxRows == 2

Years == {2000, 2001}

\* the rows of the note table (the DataFrame notes_data), in file order
NoteRows ==
    [year : Years, protection_level : {Rat(5, 100), Rat(15, 100), Rat(20, 100)},
     participation_rate : {Rat(9, 10), Rat(11, 10)}]

NoteTables == UNION { [1..n -> NoteRows] : n \in 0..MaxRows }

\* a pre-assigned note of a year
PreNote(year) ==
    [participation_rate |-> Rat(3, 2), protection_level |-> Rat(3, 10),
     protection_type |-> "Floor", year |-> year]

\* pre_selected_notes: a dict from years to notes (None and {} are both falsy
\* and are the function with the empty domain)
PreSelections == UNION { [D -> {0}] : D \in SUBSET Years }

\* note_selection_params: None or {} (the empty domain), a dict without the
\* key protection_level, or a dict with a target protection level
SelectionParams ==
    { << >>, [term |-> One] }
      \cup { [protection_level |-> t] : t \in {Rat(5, 100), Rat(10, 100)} }

\* notes_data[notes_data['year'] == year]
YearNotes(rows, year) == SelectSeq(rows, LAMBDA r : r.year = year)

\* year_notes[year_notes['protection_level'] == target_protection]
MatchingNotes(year_notes, target) ==
    SelectSeq(year_notes, LAMBDA r : r.protection_level = target)

\* abs(year_notes['protection_level'] - target_protection)
Distance(r, target) == RAbs(RSub(r.protection_level, target))

\* Series.to_dict() of a row that carries the added column 'distance'
WithDistance(r, target) ==
    [k \in DOMAIN r \cup {"distance"} |->
        IF k = "distance" THEN Distance(r, target) ELSE r[k]]

\* the rows sort_values('distance', ascending = False) may put first
FarthestNotes(year_notes, target) ==
    { WithDistance(year_notes[i], target) : i \in
        { i \in DOMAIN year_notes : \A j \in DOMAIN year_notes :
            RLe(Distance(year_notes[j], target), Distance(year_notes[i], target)) } }

\* year_notes.sort_values('distance').iloc[0]: the sort is pandas' default
\* quicksort, which is not stable, so any row at the smallest distance may
\* come first
ClosestNotes(year_notes, target) ==
    { WithDistance(year_notes[i], target) : i \in
        { i \in DOMAIN year_notes : \A j \in DOMAIN year_notes :
            RLe(Distance(year_notes[i], target), Distance(year_notes[j], target)) } }

\* the hard-coded default of _get_note_for_year
DefaultParams(year) ==
    [participation_rate |-> One, protection_level |-> Rat(1, 10),
     protection_type |-> "Buffer", term |-> One,
     underlying_asset |-> "S&P 500", year |-> year]

\* _get_note_for_year(year): the set of dicts the call may return
GetNoteForYear(s, year) ==
    IF year \in DOMAIN s.pre_selected_notes
    THEN {s.pre_selected_notes[year]}
    ELSE IF s.notes_data.present /\ DOMAIN s.note_selection_params # {}
              /\ YearNotes(s.notes_data.rows, year) # << >>
    THEN LET year_notes == YearNotes(s.notes_data.rows, year)
         IN  IF "protection_level" \in DOMAIN s.note_selection_params
             THEN LET target == s.note_selection_params["protection_level"]
                      matching_notes == MatchingNotes(year_notes, target)
                  IN  IF matching_notes # << >>
                      THEN {matching_notes[1]}
                      ELSE ClosestNotes(year_notes, target)
             ELSE {year_notes[1]}
    ELSE {DefaultParams(year)}

\* PortfolioSimulation.__init__, the fields _get_note_for_year reads
SelectionInit ==
    /\ \E pre \in PreSelections, sp \in SelectionParams :
          \/ \E rows \in NoteTables :
                sim = [pre_selected_notes |-> [y \in DOMAIN pre |-> PreNote(y)],
                       notes_data |-> [present |-> TRUE, rows |-> rows],
                       note_selection_params |-> sp]
          \/ sim = [pre_selected_notes |-> [y \in DOMAIN pre |-> PreNote(y)],
                    notes_data |-> [present |-> FALSE, rows |-> << >>],
                    note_selection_params |-> sp]
    /\ selected = NoCall

SelectionIdle ==
    /\ sim = NoObject
    /\ selected = NoCall

get_note_for_year ==
    /\ \E year \in Years :
          \E note_params \in GetNoteForYear(sim, year) :
             selected' = [op |-> "_get_note_for_year", year |-> year,
                          returned |-> note_params]
    /\ UNCHANGED <<sim, notSelection>>

SelectionNext == get_note_for_year

-----------------------------------------------------------------------------
(* The sweep: generate_simulation_parameters and run_all_simulations *)

\* Python's None in a numeric field (tested with "is None" before any arithmetic)
None == <<1, 0>>

\* the last year generate_simulation_parameters assumes the data to reach
DataEndYear == 2024

\* round-half-even to an integer, the rounding of the format spec ".0f"
RoundHalfEven(x) ==
    LET fl  == x[1] \div x[2]
        rem == x[1] - fl * x[2]
    IN  IF 2 * rem < x[2] THEN fl
        ELSE IF 2 * rem > x[2] THEN fl + 1
        ELSE IF fl % 2 = 0 THEN fl ELSE fl + 1

\* f"{x*100:.0f}pct": the percentage printed without decimals.  (The float
\* product x*100 rounds as the exact product does for the values used here.)
Pct(x) == RoundHalfEven(RMul(x, Num(100)))

\* the sim_id strings, kept as the tuple of the fields the f-string joins with
\* "_" (equal strings are equal tuples as long as no portfolio name holds "_")
TraditionalSimId(start_year, portfolio_type, withdrawal_rate, horizon) ==
    <<start_year, portfolio_type, "traditional", Pct(withdrawal_rate), horizon>>

NoteSimId(start_year, portfolio_type, protection_level, withdrawal_rate, horizon) ==
    <<start_year, portfolio_type, Pct(protection_level), Pct(withdrawal_rate), horizon>>

\* list concatenation of a list of lists
RECURSIVE Flatten(_)
Flatten(ss) == IF ss = << >> THEN << >> ELSE Head(ss) \o Flatten(Tail(ss))

\* one sim_params dict of generate_simulation_parameters
SimParams(p, sim_id, start_year, pt, protection_level, withdrawal_rate, horizon) ==
    [sim_id            |-> sim_id,
     start_year        |-> start_year,
     portfolio_type    |-> pt.name,
     equity_allocation |-> pt.equity,
     note_allocation   |-> pt.notes,
     bond_allocation   |-> pt.bonds,
     protection_level  |-> protection_level,
     withdrawal_rate   |-> withdrawal_rate,
     time_horizon      |-> horizon,
     starting_amount   |-> p.starting_amount]

\* the horizon filter of generate_simulation_parameters, line 196
SkipHorizon(start_year, horizon) == start_year + horizon > DataEndYear

\* generate_simulation_parameters: the nested loops, in their order
GenerateSimulationParameters(p) ==
    LET ForPortfolio(start_year, horizon, pt) ==
            IF pt.notes = Zero
            THEN [w \in DOMAIN p.rates |->
                    SimParams(p, TraditionalSimId(start_year, pt.name, p.rates[w], horizon),
                              start_year, pt, None, p.rates[w], horizon)]
            ELSE Flatten([l \in DOMAIN p.protection_levels |->
                    [w \in DOMAIN p.rates |->
                        SimParams(p, NoteSimId(start_year, pt.name, p.protection_levels[l],
                                               p.rates[w], horizon),
                                  start_year, pt, p.protection_levels[l], p.rates[w],
                                  horizon)]])
        ForHorizon(start_year, horizon) ==
            IF SkipHorizon(start_year, horizon) THEN << >>
            ELSE Flatten([k \in DOMAIN p.portfolio_allocations |->
                    ForPortfolio(start_year, horizon, p.portfolio_allocations[k])])
    IN  Flatten([i \in DOMAIN p.start_years |->
            Flatten([j \in DOMAIN p.time_horizons |->
                ForHorizon(p.start_years[i], p.time_horizons[j])])])

\* the configurations of the model: every axis is a list without repetitions
StartYearLists == {<<2003>>, <<2004>>, <<2003, 2004>>}

HorizonLists == {<<20>>, <<21>>, <<20, 21>>, <<22>>}

Traditional == [name |-> "traditional", equity |-> Rat(3, 5), notes |-> Zero, bonds |-> Rat(2, 5)]

Balanced == [name |-> "balanced", equity |-> Rat(2, 5), notes |-> Rat(3, 10), bonds |-> Rat(3, 10)]

PortfolioAllocationDicts == {<<Traditional>>, <<Balanced>>, <<Traditional, Balanced>>}

ProtectionLevelLists == {<< >>, <<Rat(10, 100)>>, <<Rat(10, 100), Rat(20, 100)>>}

RateLists == {<<Rat(4, 100)>>, <<Rat(3, 100), Rat(4, 100)>>, <<Rat(35, 1000), Rat(4, 100)>>}

\* the last year the loaded market data holds (market_data['years'][-1])
LastDataYears == {2023, 2024, 2025}

SweepInit ==
    /\ params \in [start_years : StartYearLists, time_horizons : HorizonLists,
                   portfolio_allocations : PortfolioAllocationDicts,
                   protection_levels : ProtectionLevelLists, rates : RateLists,
                   starting_amount : {Num(100)}]
    /\ market_data \in [last_year : LastDataYears]
    /\ sim_params_list = << >>
    /\ submitted = << >>
    /\ sweep_pc = "start"

SweepIdle ==
    /\ params = NoObject
    /\ market_data = NoObject
    /\ sim_params_list = << >>
    /\ submitted = << >>
    /\ sweep_pc = "idle"

\* run_all_simulations, line 537
generate_simulation_parameters ==
    /\ sweep_pc = "start"
    /\ sim_params_list' = GenerateSimulationParameters(params)
    /\ sweep_pc' = "generated"
    /\ UNCHANGED <<params, market_data, submitted, notSweep>>

\* run_all_simulations, lines 550-553: every generated sim_params is submitted
submit_all ==
    /\ sweep_pc = "generated"
    /\ submitted' = sim_params_list
    /\ sweep_pc' = "submitted"
    /\ UNCHANGED <<params, market_data, sim_params_list, notSweep>>

SweepNext == generate_simulation_parameters \/ submit_all

-----------------------------------------------------------------------------
(* One simulation of the sweep: run_single_simulation *)

\* frame[frame['year'] == calendar_year][column].iloc[0] if the selection is
\* not empty, else the default; a frame is a function from its years
Lookup(frame, calendar_year, default) ==
    IF calendar_year \in DOMAIN frame THEN frame[calendar_year] ELSE default

\* the record of year 0, lines 292-308
InitialRecord(sp) ==
    [year              |-> 0,
     calendar_year     |-> sp.start_year,
     starting_value    |-> sp.starting_amount,
     ending_value      |-> sp.starting_amount,
     withdrawal_amount |-> Zero,
     equity_return     |-> Zero,
     note_return       |-> Zero,
     bond_return       |-> Zero,
     portfolio_return  |-> Zero,
     equity_value      |-> RMul(sp.starting_amount, sp.equity_allocation),
     note_value        |-> RMul(sp.starting_amount, sp.note_allocation),
     bond_value        |-> RMul(sp.starting_amount, sp.bond_allocation),
     inflation_rate    |-> Zero]

\* the rows of the notes frame for a year and a protection level, lines 322-323
NoteRow(sp, md, calendar_year) ==
    {r \in md.notes : r.year = calendar_year /\ r.protection_level = sp.protection_level}

\* lines 320-340
RunNoteReturn(sp, md, calendar_year, sp500_return) ==
    IF RLt(Zero, sp.note_allocation) /\ sp.protection_level # None
    THEN LET note_row == NoteRow(sp, md, calendar_year)
             participation_rate ==
                 IF note_row # {} THEN (CHOOSE r \in note_row : TRUE).participation_rate
                 ELSE One
         IN  IF RLt(Zero, sp500_return) THEN RMul(sp500_return, participation_rate)
             ELSE LET abs_return == RAbs(sp500_return)
                  IN  IF RLe(abs_return, sp.protection_level) THEN Zero
                      ELSE RNeg(RSub(abs_return, sp.protection_level))
    ELSE Zero

\* pre_withdrawal_value is a numpy scalar when a value read from a frame went
\* into it, and a Python float when every return of the year is a default
PreWithdrawalIsNumpy(sp, md, calendar_year) ==
    \/ calendar_year \in DOMAIN md.sp500
    \/ calendar_year \in DOMAIN md.bonds
    \/ /\ RLt(Zero, sp.note_allocation) /\ sp.protection_level # None
       /\ NoteRow(sp, md, calendar_year) # {}
       /\ RLt(Zero, Lookup(md.sp500, calendar_year, Rat(7, 100)))

\* line 373 divides by the previous ending value: Python numbers raise
\* ZeroDivisionError on a zero divisor, numpy scalars give nan
YearRaises(sp, md, results, year_idx) ==
    /\ year_idx > 0
    /\ results[Len(results)].ending_value = Zero
    /\ ~PreWithdrawalIsNumpy(sp, md, sp.start_year + year_idx)

\* the withdrawal taken without the cap at what is left
ApplyWithdrawalUncapped(pre_withdrawal_value, withdrawal_amount) ==
    [ending_value      |-> IF RLe(pre_withdrawal_value, withdrawal_amount) THEN Zero
                           ELSE RSub(pre_withdrawal_value, withdrawal_amount),
     withdrawal_amount |-> withdrawal_amount]

\* lines 364-370: a withdrawal the value does not cover depletes the portfolio
\* and takes what is left
ApplyWithdrawal(pre_withdrawal_value, withdrawal_amount) ==
    IF RLe(pre_withdrawal_value, withdrawal_amount)
    THEN [ending_value |-> Zero, withdrawal_amount |-> pre_withdrawal_value]
    ELSE [ending_value      |-> RSub(pre_withdrawal_value, withdrawal_amount),
          withdrawal_amount |-> withdrawal_amount]

\* the record of a year with index >= 1, lines 311-394
YearRecord(sp, md, results, year_idx) ==
    LET calendar_year  == sp.start_year + year_idx
        sp500_return   == Lookup(md.sp500, calendar_year, Rat(7, 100))
        bond_return    == Lookup(md.bonds, calendar_year, Rat(4, 100))
        note_return    == RunNoteReturn(sp, md, calendar_year, sp500_return)
        inflation_rate == Lookup(md.inflation, calendar_year, Rat(2, 100))
        prev           == results[Len(results)]
        withdrawal     == IF year_idx = 1
                          THEN RMul(sp.starting_amount, sp.withdrawal_rate)
                          ELSE RMul(prev.withdrawal_amount, RAdd(One, inflation_rate))
        prev_portfolio == prev.ending_value
        equity_value   == RMul(RMul(prev_portfolio, sp.equity_allocation),
                               RAdd(One, sp500_return))
        note_value     == RMul(RMul(prev_portfolio, sp.note_allocation),
                               RAdd(One, note_return))
        bond_value     == RMul(RMul(prev_portfolio, sp.bond_allocation),
                               RAdd(One, bond_return))
        pre_withdrawal_value == RAdd(RAdd(equity_value, note_value), bond_value)
        applied        == ApplyWithdrawal(pre_withdrawal_value, withdrawal)
    IN  [year              |-> year_idx,
         calendar_year     |-> calendar_year,
         starting_value    |-> prev_portfolio,
         ending_value      |-> applied.ending_value,
         withdrawal_amount |-> applied.withdrawal_amount,
         equity_return     |-> sp500_return,
         note_return       |-> note_return,
         bond_return       |-> bond_return,
         portfolio_return  |-> IF prev_portfolio = Zero THEN NaN
                               ELSE RSub(RDiv(pre_withdrawal_value, prev_portfolio), One),
         equity_value      |-> equity_value,
         note_value        |-> note_value,
         bond_value        |-> bond_value,
         inflation_rate    |-> inflation_rate]

\* the loop's exit test with the break removed
NeverDepleted(ending_value) == FALSE

\* lines 396-398: break if the portfolio is depleted
Depleted(ending_value) == RLe(ending_value, Zero)

\* a scan that measures every value against the first one
RECURSIVE FirstValueScan(_, _, _)
FirstValueScan(values, peak, max_drawdown) ==
    IF values = << >> THEN max_drawdown
    ELSE LET value == Head(values)
             drawdown == IF RLt(Zero, peak) THEN RDiv(RSub(peak, value), peak) ELSE Zero
         IN  FirstValueScan(Tail(values), peak, PyMax(max_drawdown, drawdown))

\* lines 415-424: the largest relative fall below the running peak
RECURSIVE DrawdownScan(_, _, _)
DrawdownScan(values, peak, max_drawdown) ==
    IF values = << >> THEN max_drawdown
    ELSE LET value    == Head(values)
             new_peak == IF RLt(peak, value) THEN value ELSE peak
             drawdown == IF RLt(Zero, new_peak)
                         THEN RDiv(RSub(new_peak, value), new_peak) ELSE Zero
         IN  DrawdownScan(Tail(values), new_peak, PyMax(max_drawdown, drawdown))

MaxDrawdown(results) ==
    DrawdownScan([i \in DOMAIN results |-> results[i].ending_value],
                 results[1].ending_value, Zero)

\* line 407 divides the terminal value by the starting amount when a year was
\* completed.  The starting amount is a Python number of the configuration,
\* and a run that starts at 0 ends on the Python int 0 of line 367, so the
\* division raises ZeroDivisionError
SummaryRaises(sp, results) ==
    /\ results[Len(results)].year > 0
    /\ sp.starting_amount = Zero

\* lines 400-437.  cagr, volatility and inflation_adjusted_terminal are roots
\* and products outside the rationals of the model; of them only the raise of
\* line 407 is kept
SummaryStats(sp, results) ==
    LET end_value == results[Len(results)].ending_value
    IN  [terminal_value |-> end_value,
         success_flag   |-> IF RLt(Zero, end_value) THEN 1 ELSE 0,
         max_drawdown   |-> MaxDrawdown(results)]

\* the longest horizon of the runs of the model
MaxHorizon == 2

RunStartYear == 2000

RunYears == (RunStartYear + 1)..(RunStartYear + MaxHorizon)

\* the frames: any subset of the years may be missing from a frame
Frames(values) == UNION {[D -> values] : D \in SUBSET RunYears}

RunNoteRows == {[year |-> RunStartYear + 1, protection_level |-> Rat(10, 100),
                 participation_rate |-> Rat(9, 10)]}

\* load_market_data: the inflation frame holds 0.02 for every year of the
\* S&P 500 frame
RunMarketData ==
    {[sp500 |-> s, bonds |-> b, inflation |-> [y \in DOMAIN s |-> Rat(2, 100)],
      notes |-> n]
        : s \in Frames({Num(-1), Rat(1, 2)}), b \in Frames({Zero}),
          n \in SUBSET RunNoteRows}

RunRates == {Zero, Rat(4, 100), Rat(1, 2)}

StartingAmounts == {Zero, Num(100)}

\* the sim_params a sweep over one start year generates
RunSimParams ==
    {SimParams([starting_amount |-> a],
               TraditionalSimId(RunStartYear, Traditional.name, w, h),
               RunStartYear, Traditional, None, w, h)
        : a \in StartingAmounts, w \in RunRates, h \in 0..MaxHorizon}
    \cup
    {SimParams([starting_amount |-> a],
               NoteSimId(RunStartYear, Balanced.name, Rat(10, 100), w, h),
               RunStartYear, Balanced, Rat(10, 100), w, h)
        : a \in StartingAmounts, w \in RunRates, h \in 0..MaxHorizon}

RunInit ==
    /\ run_params \in RunSimParams
    /\ run_data \in RunMarketData
    /\ yearly_results = << >>
    /\ run_status = "running"
    /\ summary_stats = NoObject

RunIdle ==
    /\ run_params = NoObject
    /\ run_data = NoObject
    /\ yearly_results = << >>
    /\ run_status = "idle"
    /\ summary_stats = NoObject

\* the except clause, lines 449-451: the call raises and returns nothing
RunFails ==
    /\ run_status' = "failed"
    /\ yearly_results' = << >>
    /\ summary_stats' = NoObject

\* one iteration of the year loop of run_single_simulation; the iteration that
\* leaves the loop goes on to the summary and the return
simulate_year ==
    /\ run_status = "running"
    /\ LET year_idx == Len(yearly_results)
       IN  IF YearRaises(run_params, run_data, yearly_results, year_idx)
           THEN RunFails
           ELSE LET record  == IF year_idx = 0 THEN InitialRecord(run_params)
                               ELSE YearRecord(run_params, run_data, yearly_results,
                                               year_idx)
                    results == Append(yearly_results, record)
                    leaves  == \/ year_idx = run_params.time_horizon
                               \/ year_idx > 0 /\ Depleted(record.ending_value)
                IN  IF ~leaves
                    THEN /\ yearly_results' = results
                         /\ UNCHANGED <<run_status, summary_stats>>
                    ELSE IF SummaryRaises(run_params, results)
                    THEN RunFails
                    ELSE /\ yearly_results' = results
                         /\ summary_stats' = SummaryStats(run_params, results)
                         /\ run_status' = "done"
    /\ UNCHANGED <<run_params, run_data, notRun>>

RunNext == simulate_year

-----------------------------------------------------------------------------
(* The sweep's process pool: run_all_simulations, its workers and the store *)

\* one pass of run_single_simulation's loop on the call's own locals: the
\* status the call is in afterwards, its list and its summary
RunStep(sp, md, results) ==
    LET year_idx == Len(results)
        raised   == [status |-> "raised", yearly_results |-> << >>, summary |-> NoObject]
    IN  IF YearRaises(sp, md, results, year_idx) THEN raised
        ELSE LET record == IF year_idx = 0 THEN InitialRecord(sp)
                           ELSE YearRecord(sp, md, results, year_idx)
                 new    == Append(results, record)
                 leaves == \/ year_idx = sp.time_horizon
                           \/ year_idx > 0 /\ Depleted(record.ending_value)
             IN  IF ~leaves
                 THEN [status |-> "running", yearly_results |-> new, summary |-> NoObject]
                 ELSE IF SummaryRaises(sp, new) THEN raised
                 ELSE [status |-> "returned", yearly_results |-> new,
                       summary |-> SummaryStats(sp, new)]

\* run_single_simulation executed from entry to exit with nothing else running
RECURSIVE RunFrom(_, _, _)
RunFrom(sp, md, results) ==
    LET r == RunStep(sp, md, results)
    IN  IF r.status = "running" THEN RunFrom(sp, md, r.yearly_results) ELSE r

RunAlone(sp, md) == RunFrom(sp, md, << >>)

\* line 191 and lines 219, 240: every sim_params carries the time at which
\* generate_simulation_parameters ran
Stamp(sim_params_seq, timestamp) ==
    [i \in DOMAIN sim_params_seq |->
        sim_params_seq[i] @@ [run_timestamp |-> timestamp]]

\* the list a worker appends to, with a list shared by the worker processes
SharedResults(ws, i) ==
    LET running == {j \in DOMAIN ws : ws[j].status = "running"}
    IN  ws[CHOOSE j \in running : \A k \in running : j <= k].yearly_results

\* line 277: yearly_results is a local of the call, in the call's own process
LocalResults(ws, i) == ws[i].yearly_results

\* the row of table simulations that save_simulation_results inserts, lines
\* 468-492 (of the summary, the columns the model computes)
SimulationRow(result) ==
    [sim_id            |-> result.sim_params.sim_id,
     start_year        |-> result.sim_params.start_year,
     portfolio_type    |-> result.sim_params.portfolio_type,
     equity_allocation |-> result.sim_params.equity_allocation,
     note_allocation   |-> result.sim_params.note_allocation,
     bond_allocation   |-> result.sim_params.bond_allocation,
     protection_level  |-> result.sim_params.protection_level,
     withdrawal_rate   |-> result.sim_params.withdrawal_rate,
     time_horizon      |-> result.sim_params.time_horizon,
     run_timestamp     |-> result.sim_params.run_timestamp,
     terminal_value    |-> result.sim_params.terminal_value,
     success_flag      |-> result.sim_params.success_flag,
     max_drawdown      |-> result.sim_params.max_drawdown]

\* the rows of table yearly_results it inserts, lines 495-517
YearlyRows(result) ==
    {[sim_id |-> result.sim_params.sim_id] @@ result.yearly_results[k]
        : k \in DOMAIN result.yearly_results}

\* sim_id is the primary key of simulations (setup_database.py line 38): the
\* INSERT of a row whose sim_id is already stored raises IntegrityError
IntegrityError(tables, result) ==
    \E row \in tables.simulations : row.sim_id = result.sim_params.sim_id

\* conn.commit(), line 519: all rows of the result become visible together
Committed(tables, result) ==
    [simulations    |-> tables.simulations \cup {SimulationRow(result)},
     yearly_results |-> tables.yearly_results \cup YearlyRows(result)]

EmptyTables == [simulations |-> {}, yearly_results |-> {}]

\* the store after a save that raised, had every INSERT been committed on its
\* own: the simulations row of the result stays when its INSERT went through
AutocommittedInserts(tables, result) ==
    IF IntegrityError(tables, result) THEN tables
    ELSE [tables EXCEPT !.simulations = @ \cup {SimulationRow(result)}]

\* lines 464-524: the INSERTs run in the transaction the connection opens
\* implicitly; a save that raises has not reached conn.commit() of line 519,
\* and the connection is closed without a commit: the store keeps its rows
RolledBack(tables, result) == tables

\* the connections left open once a failed save has been handled, with the
\* connection of the failed save never released
LeakedConnection(conns, i) == conns

\* the connection of a failed save is a local of save_simulation_results: it
\* is released (and its transaction rolled back) when the exception that
\* holds the frame is dropped at the end of the except clause, line 569
ReleasedConnection(conns, i) == conns \ {[owner |-> "coordinator", future |-> i]}

\* the writes the environment may fail in one behaviour
MaxIOFailures == 1

\* the sweep configurations of the pool model
PoolStartYear == 2000

PoolConfigs ==
    {[start_years |-> <<PoolStartYear>>, time_horizons |-> <<1>>,
      portfolio_allocations |-> <<Traditional, Balanced>>,
      protection_levels |-> <<Rat(10, 100)>>, rates |-> <<Rat(1, 2)>>,
      starting_amount |-> Num(100)],
     [start_years |-> <<PoolStartYear>>, time_horizons |-> <<0, 1>>,
      portfolio_allocations |-> <<Traditional>>,
      protection_levels |-> << >>, rates |-> <<Rat(4, 100)>>,
      starting_amount |-> Zero],
     [start_years |-> <<PoolStartYear>>, time_horizons |-> <<1>>,
      portfolio_allocations |-> <<Traditional>>,
      protection_levels |-> << >>,
      rates |-> <<Rat(35, 1000), Rat(4, 100), Rat(1, 2)>>,
      starting_amount |-> Num(100)],
     [start_years |-> <<PoolStartYear>>, time_horizons |-> <<0, 1>>,
      portfolio_allocations |-> <<Traditional>>,
      protection_levels |-> << >>, rates |-> <<Rat(4, 100), Rat(1, 2)>>,
      starting_amount |-> Zero]}

PoolMarketData ==
    {[sp500 |-> [y \in {PoolStartYear + 1} |-> Num(-1)],
      bonds |-> [y \in {PoolStartYear + 1} |-> Zero],
      inflation |-> [y \in {PoolStartYear + 1} |-> Rat(2, 100)],
      notes |-> {[year |-> PoolStartYear + 1, protection_level |-> Rat(10, 100),
                  participation_rate |-> Rat(9, 10)]}],
     [sp500 |-> << >>, bonds |-> << >>, inflation |-> << >>, notes |-> {}]}

WorkerCounts == {1, 2}

\* a future that has not been picked up by a worker process
Queued == [status |-> "queued"]

Futures == DOMAIN tasks

Completed(i) == workers[i].status \in {"returned", "raised"}

\* run_all_simulations up to the end of the submit comprehension, lines 536-553
StartSweep(config, md, n, now) ==
    /\ tasks = Stamp(GenerateSimulationParameters(config), now)
    /\ pool_params = config
    /\ pool_data = md
    /\ num_workers = n
    /\ workers = [i \in DOMAIN GenerateSimulationParameters(config) |-> Queued]
    /\ collected = {}
    /\ saving = 0
    /\ connections = {}
    /\ db = EmptyTables
    /\ error_log = {}
    /\ saved = {}
    /\ pool_pc = "loop"

PoolInit ==
    /\ \E config \in PoolConfigs, md \in PoolMarketData, n \in WorkerCounts :
          StartSweep(config, md, n, 1)
    /\ clock = 1
    /\ previous_db = NoObject
    /\ io_failures = 0

PoolIdle ==
    /\ tasks = << >>
    /\ pool_params = NoObject
    /\ pool_data = NoObject
    /\ num_workers = 0
    /\ workers = << >>
    /\ collected = {}
    /\ saving = 0
    /\ connections = {}
    /\ db = EmptyTables
    /\ error_log = {}
    /\ saved = {}
    /\ pool_pc = "idle"
    /\ clock = 0
    /\ previous_db = NoObject
    /\ io_failures = 0

\* when a worker process is free to take future i off the call queue (the
\* queue is served in submission order)
CanStart(i) ==
    /\ pool_pc = "loop"
    /\ workers[i].status = "queued"
    /\ \A j \in Futures : j < i => workers[j].status # "queued"
    /\ Cardinality({j \in Futures : workers[j].status = "running"}) < num_workers

\* when the call of future i is inside its year loop
CanSimulate(i) == pool_pc = "loop" /\ workers[i].status = "running"

\* when as_completed can hand future i to the body of the loop, lines 556-557
\* (the futures that are complete when as_completed is called come out of a
\* set, in no particular order)
CanCollect(i) == pool_pc = "loop" /\ saving = 0 /\ i \notin collected /\ Completed(i)

\* when the coordinator is inside save_simulation_results
InSave == pool_pc = "loop" /\ saving # 0

\* when as_completed is exhausted
CanFinish == pool_pc = "loop" /\ saving = 0 /\ collected = Futures

\* a worker process takes the next queued call: it works on the unpickled
\* copies of sim_params and market_data
worker_start(i) ==
    /\ CanStart(i)
    /\ workers' = [workers EXCEPT ![i] =
            [status |-> "running", sim_params |-> tasks[i], market_data |-> pool_data,
             yearly_results |-> << >>]]
    /\ UNCHANGED <<tasks, pool_params, pool_data, num_workers, collected, saving, connections, db,
                   error_log, saved, pool_pc, clock, previous_db, io_failures, notPool>>

\* one pass of the year loop of run_single_simulation in the worker of future
\* i; the pass that leaves the loop computes the summary, merges it into the
\* worker's sim_params (line 440) and returns, or the call raises
worker_simulate_year(i) ==
    /\ CanSimulate(i)
    /\ LET w == workers[i]
           r == RunStep(w.sim_params, w.market_data, LocalResults(workers, i))
       IN  workers' = [workers EXCEPT ![i] =
              IF r.status = "running" THEN [w EXCEPT !.yearly_results = r.yearly_results]
              ELSE IF r.status = "raised" THEN [status |-> "raised"]
              ELSE [status |-> "returned",
                    result |-> [sim_params |-> w.sim_params @@ r.summary,
                                yearly_results |-> r.yearly_results]]]
    /\ UNCHANGED <<tasks, pool_params, pool_data, num_workers, collected, saving, connections, db,
                   error_log, saved, pool_pc, clock, previous_db, io_failures, notPool>>

\* the handling of a raised future with no except clause around
\* future.result(): the exception leaves run_all_simulations
future_result_propagates(i) ==
    /\ CanCollect(i)
    /\ workers[i].status = "raised"
    /\ pool_pc' = "finished"
    /\ UNCHANGED <<tasks, pool_params, pool_data, num_workers, workers, collected, saving,
                   connections, db, error_log, saved, clock, previous_db, io_failures,
                   notPool>>

\* lines 556-569 for a future whose call raised: future.result() re-raises in
\* the coordinator, the except clause logs it and the loop goes on
future_result_raises(i) ==
    /\ CanCollect(i)
    /\ workers[i].status = "raised"
    /\ error_log' = error_log \cup {i}
    /\ collected' = collected \cup {i}
    /\ UNCHANGED <<tasks, pool_params, pool_data, num_workers, workers, saving, connections, db,
                   saved, pool_pc, clock, previous_db, io_failures, notPool>>

\* lines 559-560 and 464-465: the coordinator takes the result of a returned
\* future and save_simulation_results opens its connection
save_begin(i) ==
    /\ CanCollect(i)
    /\ workers[i].status = "returned"
    /\ saving' = i
    /\ connections' = connections \cup {[owner |-> "coordinator", future |-> i]}
    /\ UNCHANGED <<tasks, pool_params, pool_data, num_workers, workers, collected, db, error_log,
                   saved, pool_pc, clock, previous_db, io_failures, notPool>>

\* lines 468-520 and 561: the inserts succeed, the transaction commits, the
\* connection is closed, the result is counted
save_commit ==
    /\ InSave
    /\ ~IntegrityError(db, workers[saving].result)
    /\ db' = Committed(db, workers[saving].result)
    /\ connections' = connections \ {[owner |-> "coordinator", future |-> saving]}
    /\ saved' = saved \cup {saving}
    /\ collected' = collected \cup {saving}
    /\ saving' = 0
    /\ UNCHANGED <<tasks, pool_params, pool_data, num_workers, workers, error_log, pool_pc, clock,
                   previous_db, io_failures, notPool>>

\* lines 522-524 and 568-569: an insert or the commit raises (a duplicate
\* key, or a failure of the store itself); save_simulation_results logs and
\* re-raises, the except clause of the loop logs it and the loop goes on.
\* Nothing of the transaction is committed
save_raises ==
    /\ InSave
    /\ \/ /\ IntegrityError(db, workers[saving].result)
          /\ UNCHANGED io_failures
       \/ /\ io_failures < MaxIOFailures
          /\ io_failures' = io_failures + 1
    /\ connections' = ReleasedConnection(connections, saving)
    /\ error_log' = error_log \cup {saving}
    /\ collected' = collected \cup {saving}
    /\ saving' = 0
    /\ db' = RolledBack(db, workers[saving].result)
    /\ UNCHANGED <<tasks, pool_params, pool_data, num_workers, workers, saved, pool_pc, clock,
                   previous_db, notPool>>

\* lines 571-572: as_completed is exhausted, the executor is shut down
sweep_finished ==
    /\ CanFinish
    /\ pool_pc' = "finished"
    /\ UNCHANGED <<tasks, pool_params, pool_data, num_workers, workers, collected, saving,
                   connections, db, error_log, saved, clock, previous_db, io_failures,
                   notPool>>

\* the whole sweep is run a second time on the same configuration and the
\* same market data, into an empty store, at a later wall-clock time; the
\* tables of the first sweep are kept for comparison
rerun_sweep ==
    /\ pool_pc = "finished"
    /\ previous_db = NoObject
    /\ previous_db' = db
    /\ clock' = clock + 1
    /\ tasks' = Stamp(GenerateSimulationParameters(pool_params), clock')
    /\ workers' = [i \in DOMAIN tasks |-> Queued]
    /\ collected' = {}
    /\ saving' = 0
    /\ connections' = {}
    /\ db' = EmptyTables
    /\ error_log' = {}
    /\ saved' = {}
    /\ pool_pc' = "loop"
    /\ UNCHANGED <<pool_params, pool_data, num_workers, io_failures, notPool>>

PoolNext ==
    \/ \E i \in Futures : worker_start(i)
    \/ \E i \in Futures : worker_simulate_year(i)
    \/ \E i \in Futures : future_result_raises(i)
    \/ \E i \in Futures : save_begin(i)
    \/ save_commit
    \/ save_raises
    \/ sweep_finished
    \/ rerun_sweep

-----------------------------------------------------------------------------
(* Withdrawal strategies: retirement.py *)

\* start_year = None (params without the key start_year)
NoStartYear == -1

\* x ** k for an integer k
RECURSIVE RPow(_, _)
RPow(x, k) ==
    IF k = 0 THEN One
    ELSE IF k < 0 THEN RDiv(One, RPow(x, -k))
    ELSE RMul(x, RPow(x, k - 1))

\* FixedPercentageWithdrawal.__init__
FixedPercentageWithdrawal(wparams) ==
    [class |-> "FixedPercentageWithdrawal",
     start_year |-> Get(wparams, "start_year", NoStartYear),
     rate |-> Get(wparams, "rate", Rat(4, 100)),
     inflation_adjusted |-> Get(wparams, "inflation_adjusted", FALSE),
     inflation_rate |-> Get(wparams, "inflation_rate", Rat(25, 1000)),
     initial_portfolio_value |-> None]

\* FixedDollarWithdrawal.__init__
FixedDollarWithdrawal(wparams) ==
    [class |-> "FixedDollarWithdrawal",
     start_year |-> Get(wparams, "start_year", NoStartYear),
     amount |-> Get(wparams, "amount", Num(40000)),
     inflation_adjusted |-> Get(wparams, "inflation_adjusted", FALSE),
     inflation_rate |-> Get(wparams, "inflation_rate", Rat(25, 1000))]

\* RMDWithdrawal.__init__, lines 135-139
RMDWithdrawal(wparams) ==
    [class |-> "RMDWithdrawal",
     start_year |-> Get(wparams, "start_year", NoStartYear),
     starting_age |-> Get(wparams, "starting_age", 72),
     current_age |-> Get(wparams, "starting_age", 72)]

\* self.rmd_factors, lines 142-148, in tenths
RmdTenths ==
    <<274, 265, 255, 246, 237, 229, 220, 211, 202, 194, 185, 177, 168, 160, 152,
      144, 137, 129, 122, 115, 108, 101, 95, 89, 84, 78, 73, 68, 64>>

rmd_factors == [age \in 72..100 |-> Rat(RmdTenths[age - 71], 10)]

\* create_withdrawal_strategy (the strategy names of the model are lower case)
CreateWithdrawalStrategy(wparams) ==
    LET strategy_type == Get(wparams, "strategy", "fixed_percentage")
    IN  IF strategy_type = "fixed_percentage" THEN FixedPercentageWithdrawal(wparams)
        ELSE IF strategy_type = "fixed_dollar" THEN FixedDollarWithdrawal(wparams)
        ELSE IF strategy_type = "rmd" THEN RMDWithdrawal(wparams)
        ELSE FixedPercentageWithdrawal(wparams)

\* lines 72 and 115
YearsSinceStart(st, current_year) ==
    IF st.start_year = NoStartYear THEN 0 ELSE current_year - st.start_year

\* the anchor of a strategy whose every call takes the value it is given
RecapturedAnchor(st, portfolio_value) == portfolio_value

\* lines 62-63: the anchor is set on the first call only
Anchor(st, portfolio_value) ==
    IF st.initial_portfolio_value = None THEN portfolio_value
    ELSE st.initial_portfolio_value

\* FixedPercentageWithdrawal.calculate_withdrawal: the object afterwards and
\* the value returned
FixedPercentageCalc(st, portfolio_value, current_year) ==
    LET anchor     == Anchor(st, portfolio_value)
        withdrawal ==
            IF st.inflation_adjusted
            THEN RMul(RMul(anchor, st.rate),
                      RPow(RAdd(One, st.inflation_rate), YearsSinceStart(st, current_year)))
            ELSE RMul(portfolio_value, st.rate)
    IN  [strategy |-> [st EXCEPT !.initial_portfolio_value = anchor],
         returned |-> PyMin(withdrawal, portfolio_value)]

\* FixedDollarWithdrawal.calculate_withdrawal
FixedDollarCalc(st, portfolio_value, current_year) ==
    LET withdrawal ==
            IF st.inflation_adjusted
            THEN RMul(st.amount,
                      RPow(RAdd(One, st.inflation_rate), YearsSinceStart(st, current_year)))
            ELSE st.amount
    IN  [strategy |-> st, returned |-> PyMin(withdrawal, portfolio_value)]

\* line 178: self.rmd_factors.get(lookup_age, 6.4)
RmdDivisor(lookup_age) ==
    IF lookup_age \in DOMAIN rmd_factors THEN rmd_factors[lookup_age] ELSE Rat(64, 10)

\* RMDWithdrawal.calculate_withdrawal
RMDCalc(st, portfolio_value, current_year) ==
    LET current_age == IF st.start_year # NoStartYear
                       THEN st.starting_age + (current_year - st.start_year)
                       ELSE st.current_age
        st2         == [st EXCEPT !.current_age = current_age]
        lookup_age  == IF 100 < current_age THEN 100 ELSE current_age
    IN  IF current_age < st.starting_age
        THEN [strategy |-> st2, returned |-> Zero]
        ELSE [strategy |-> st2,
              returned |-> RDiv(portfolio_value, RmdDivisor(lookup_age))]

\* strategy.calculate_withdrawal(portfolio, current_year), by the object's class
CalculateWithdrawal(st, portfolio_value, current_year) ==
    IF st.class = "RMDWithdrawal" THEN RMDCalc(st, portfolio_value, current_year)
    ELSE IF st.class = "FixedDollarWithdrawal"
    THEN FixedDollarCalc(st, portfolio_value, current_year)
    ELSE FixedPercentageCalc(st, portfolio_value, current_year)

\* the calls made on one strategy object
MaxWithdrawalCalls == 3

StrategyStartYear == 2000

WithdrawalParams ==
    {[strategy |-> "fixed_percentage", inflation_adjusted |-> TRUE,
      start_year |-> StrategyStartYear],
     [strategy |-> "fixed_percentage", inflation_adjusted |-> TRUE],
     [strategy |-> "fixed_percentage", rate |-> Rat(1, 2), start_year |-> StrategyStartYear],
     [strategy |-> "fixed_dollar", amount |-> Num(50), start_year |-> StrategyStartYear],
     [strategy |-> "rmd", start_year |-> StrategyStartYear],
     [strategy |-> "rmd"],
     [strategy |-> "rmd", starting_age |-> 70, start_year |-> StrategyStartYear],
     [strategy |-> "rmd", starting_age |-> 99, start_year |-> StrategyStartYear]}

PortfolioValues == {Zero, Num(100), Num(500000)}

\* the calendar years of the calls: one before the start year, and for the RMD
\* strategy the year of age starting_age + 8
CallYears(st) ==
    IF st.class = "RMDWithdrawal"
    THEN {StrategyStartYear - 1, StrategyStartYear, StrategyStartYear + 2,
          StrategyStartYear + 8}
    ELSE (StrategyStartYear - 1)..(StrategyStartYear + 2)

StrategyInit ==
    /\ \E wparams \in WithdrawalParams : strategy = CreateWithdrawalStrategy(wparams)
    /\ whist = << >>

StrategyIdle ==
    /\ strategy = NoObject
    /\ whist = << >>

calculate_withdrawal ==
    /\ Len(whist) < MaxWithdrawalCalls
    /\ \E portfolio_value \in PortfolioValues, current_year \in CallYears(strategy) :
          LET r == CalculateWithdrawal(strategy, portfolio_value, current_year)
          IN  /\ strategy' = r.strategy
              /\ whist' = Append(whist, [portfolio_value |-> portfolio_value,
                                        current_year |-> current_year,
                                        returned |-> r.returned])
    /\ UNCHANGED notStrategy

StrategyNext == calculate_withdrawal

-----------------------------------------------------------------------------
(* Maximum drawdown: PortfolioSimulation._calculate_max_drawdown and the scan *)
(* of run_single_simulation, applied to arbitrary value sequences             *)

MaxPath == 4

PathValues == {Zero, Num(90), Num(100), Num(110), Num(120)}

\* PortfolioSimulation._calculate_max_drawdown
CalculateMaxDrawdown(values) ==
    IF Len(values) < 2 THEN Zero
    ELSE DrawdownScan(values, values[1], Zero)

\* run_single_simulation, lines 415-424, on the ending values of its records
SummaryMaxDrawdown(portfolio_values) ==
    DrawdownScan(portfolio_values, portfolio_values[1], Zero)

DrawdownInit ==
    /\ value_path = << >>
    /\ drawdowns = NoCall

DrawdownIdle == DrawdownInit

\* one more year's value is recorded
record_value ==
    /\ Len(value_path) < MaxPath
    /\ \E value \in PathValues : value_path' = Append(value_path, value)
    /\ drawdowns' = NoCall
    /\ UNCHANGED notDrawdown

calculate_max_drawdown ==
    /\ drawdowns' = [op |-> "_calculate_max_drawdown", values |-> value_path,
                     returned |-> CalculateMaxDrawdown(value_path)]
    /\ UNCHANGED <<value_path, notDrawdown>>

\* yearly_results of run_single_simulation always holds the initial record
summary_max_drawdown ==
    /\ value_path # << >>
    /\ drawdowns' = [op |-> "run_single_simulation", values |-> value_path,
                     returned |-> SummaryMaxDrawdown(value_path)]
    /\ UNCHANGED <<value_path, notDrawdown>>

DrawdownNext == record_value \/ calculate_max_drawdown \/ summary_max_drawdown

-----------------------------------------------------------------------------
(* PortfolioSimulation.run_simulation *)

MaxSimYears == 2

SimStartYear == 2000

\* Portfolio.get_annual_return
GetAnnualReturn(p) ==
    IF IsCloseToZero(p.prev_value) THEN Zero
    ELSE RSub(RDiv(p.current_value, p.prev_value), One)

\* PortfolioSimulation._initialize_withdrawal_strategy: None and {} are falsy;
\* start_year is added to the parameters when they have none
InitializeWithdrawalStrategy(withdrawal_params, start_year) ==
    IF DOMAIN withdrawal_params = {} THEN NoObject
    ELSE CreateWithdrawalStrategy(
             [k \in DOMAIN withdrawal_params \cup {"start_year"} |->
                 IF k \in DOMAIN withdrawal_params THEN withdrawal_params[k]
                 ELSE start_year])

\* PortfolioSimulation.__init__; names is the iteration order of the dict
\* portfolio_allocations, which is the order of self.portfolios as well
NewSimulation(cfg) ==
    [sp500_returns |-> cfg.sp500_returns,
     bond_returns |-> cfg.bond_returns,
     notes_data |-> cfg.notes_data,
     start_year |-> cfg.start_year,
     end_year |-> cfg.end_year,
     initial_value |-> cfg.initial_value,
     names |-> cfg.names,
     portfolio_allocations |-> cfg.portfolio_allocations,
     note_selection_params |-> cfg.note_selection_params,
     pre_selected_notes |-> cfg.pre_selected_notes,
     portfolios |-> [name \in DOMAIN cfg.portfolio_allocations |->
                        NewPortfolio(cfg.initial_value, cfg.portfolio_allocations[name])],
     results |-> [name \in DOMAIN cfg.portfolio_allocations |-> << >>],
     withdrawal_strategy |->
         InitializeWithdrawalStrategy(cfg.withdrawal_params, cfg.start_year)]

\* PortfolioSimulation._get_year_returns: the dicts the call may return
GetYearReturns(s, year) ==
    LET sp500 == Get(s.sp500_returns, year, Zero)
        bonds == Get(s.bond_returns, year, Zero)
    IN  IF \E name \in DOMAIN s.portfolio_allocations :
               "notes" \in DOMAIN s.portfolio_allocations[name]
        THEN { [sp500 |-> sp500, bonds |-> bonds,
                notes |-> CalculateReturn(CreateNote(note_params), sp500)] :
               note_params \in GetNoteForYear(s, year) }
        ELSE { [sp500 |-> sp500, bonds |-> bonds] }

\* the dict appended to self.results[name], lines 232-239
YearResult(p, year, withdrawal_amount) ==
    [year |-> year,
     portfolio_value |-> p.current_value,
     annual_return |-> GetAnnualReturn(p),
     withdrawal |-> withdrawal_amount,
     asset_values |-> p.asset_values,
     asset_allocations |-> GetAssetAllocations(p)]

\* a loop body that rebalances before it records the year
StatementAfterRebalanceFirst(pc, has_strategy) ==
    CASE pc = "apply_returns" -> "rebalance"
      [] pc = "rebalance" -> IF has_strategy THEN "withdraw" ELSE "append"
      [] pc = "withdraw" -> "append"
      [] OTHER -> "next"

\* the statements of the loop body, lines 219-246, in program order
StatementAfter(pc, has_strategy) ==
    CASE pc = "apply_returns" -> IF has_strategy THEN "withdraw" ELSE "append"
      [] pc = "withdraw" -> "append"
      [] pc = "append" -> "rebalance"
      [] OTHER -> "next"

\* the position after statement pc of portfolio number index in year year:
\* the next portfolio, or the next year after the last one
Advance(s, l, pc) ==
    LET after == StatementAfter(pc, s.withdrawal_strategy # NoObject)
    IN  IF after # "next" THEN [l EXCEPT !.pc = after]
        ELSE IF l.index < Len(s.names)
        THEN [l EXCEPT !.pc = "apply_returns", !.index = l.index + 1,
                       !.withdrawal_amount = Zero]
        ELSE [l EXCEPT !.pc = "year", !.year = l.year + 1, !.index = 0,
                       !.withdrawal_amount = Zero]

SimNotePreSelections == { << >>, [y \in {SimStartYear} |-> PreNote(y)] }

SimAllocations ==
    { [names |-> <<"traditional">>,
       portfolio_allocations |->
           [traditional |-> [sp500 |-> Rat(6, 10), bonds |-> Rat(4, 10)]]],
      [names |-> <<"traditional", "structured">>,
       portfolio_allocations |->
           [traditional |-> [sp500 |-> Rat(1, 2), bonds |-> Rat(1, 2)],
            structured |-> [sp500 |-> Rat(1, 2), bonds |-> Rat(1, 4), notes |-> Rat(1, 4)]]] }

SimSp500Returns ==
    { [y \in SimStartYear..(SimStartYear + MaxSimYears - 1) |->
          IF y = SimStartYear THEN Rat(1, 2) ELSE Rat(-1, 2)],
      [y \in {SimStartYear} |-> Num(-1)],
      [y \in SimStartYear..(SimStartYear + MaxSimYears - 1) |-> Rat(-1, 5)] }

SimBondReturns ==
    { [y \in SimStartYear..(SimStartYear + MaxSimYears - 1) |-> Rat(1, 10)],
      [y \in {SimStartYear} |-> Num(-1)] }

SimWithdrawalParams ==
    { << >>,
      [strategy |-> "fixed_percentage", rate |-> Rat(1, 2)],
      [strategy |-> "fixed_percentage", inflation_adjusted |-> TRUE],
      [strategy |-> "fixed_percentage", rate |-> Rat(1, 2), inflation_adjusted |-> TRUE],
      [strategy |-> "fixed_dollar", amount |-> Num(50)],
      [strategy |-> "rmd"] }

SimulationInit ==
    /\ \E al \in SimAllocations, sp \in SimSp500Returns, bd \in SimBondReturns,
          wp \in SimWithdrawalParams, pre \in SimNotePreSelections,
          iv \in InitialValues, last_year \in {SimStartYear - 1, SimStartYear + MaxSimYears - 1} :
          simulation = NewSimulation(
              [sp500_returns |-> sp, bond_returns |-> bd,
               notes_data |-> [present |-> FALSE, rows |-> << >>],
               start_year |-> SimStartYear, end_year |-> last_year,
               initial_value |-> iv, names |-> al.names,
               portfolio_allocations |-> al.portfolio_allocations,
               note_selection_params |-> << >>,
               pre_selected_notes |-> pre,
               withdrawal_params |-> wp])
    /\ loop = [pc |-> "year", year |-> SimStartYear, index |-> 0,
               returns_dict |-> << >>, withdrawal_amount |-> Zero]
    /\ steps = << >>

SimulationIdle ==
    /\ simulation = NoObject
    /\ loop = [pc |-> "idle"]
    /\ steps = << >>

\* the portfolio the loop body is working on
CurrentName == simulation.names[loop.index]

\* for year in range(self.start_year, self.end_year + 1), and line 217
year_begin ==
    /\ loop.pc = "year"
    /\ loop.year <= simulation.end_year
    /\ \E returns_dict \in GetYearReturns(simulation, loop.year) :
          loop' = IF simulation.names = << >>
                  THEN [loop EXCEPT !.year = loop.year + 1]
                  ELSE [loop EXCEPT !.pc = "apply_returns", !.index = 1,
                                    !.returns_dict = returns_dict,
                                    !.withdrawal_amount = Zero]
    /\ UNCHANGED <<simulation, steps, notSimulation>>

\* line 222
portfolio_apply_returns ==
    /\ loop.pc = "apply_returns"
    /\ simulation' = [simulation EXCEPT !.portfolios[CurrentName] =
                          AppliedReturns(@, loop.returns_dict)]
    /\ steps' = Append(steps, [year |-> loop.year, name |-> CurrentName,
                               statement |-> "apply_returns"])
    /\ loop' = Advance(simulation, loop, "apply_returns")
    /\ UNCHANGED notSimulation

\* lines 226-228; portfolio values here are Python or numpy numbers and
\* withdraw raises only on the former
portfolio_withdraw ==
    /\ loop.pc = "withdraw"
    /\ LET p == simulation.portfolios[CurrentName]
           r == CalculateWithdrawal(simulation.withdrawal_strategy, p.current_value, loop.year)
           amount == r.returned
       IN  /\ steps' = Append(steps, [year |-> loop.year, name |-> CurrentName,
                                      statement |-> "withdraw"])
           /\ IF RLe(amount, Zero)
              THEN /\ simulation' = [simulation EXCEPT !.withdrawal_strategy = r.strategy]
                   /\ loop' = [Advance(simulation, loop, "withdraw")
                                  EXCEPT !.withdrawal_amount = amount]
              ELSE IF WithdrawRaises(p, amount, "python")
              THEN /\ simulation' = [simulation EXCEPT !.withdrawal_strategy = r.strategy]
                   /\ loop' = [loop EXCEPT !.pc = "raised"]
              ELSE /\ simulation' = [simulation EXCEPT
                                        !.withdrawal_strategy = r.strategy,
                                        !.portfolios[CurrentName] = Withdrawn(p, amount)]
                   /\ loop' = [Advance(simulation, loop, "withdraw")
                                  EXCEPT !.withdrawal_amount = amount]
    /\ UNCHANGED notSimulation

\* lines 230-241
results_append ==
    /\ loop.pc = "append"
    /\ simulation' = [simulation EXCEPT !.results[CurrentName] =
                          Append(@, YearResult(simulation.portfolios[CurrentName],
                                               loop.year, loop.withdrawal_amount))]
    /\ steps' = Append(steps, [year |-> loop.year, name |-> CurrentName,
                               statement |-> "append"])
    /\ loop' = Advance(simulation, loop, "append")
    /\ UNCHANGED notSimulation

\* line 246
portfolio_rebalance ==
    /\ loop.pc = "rebalance"
    /\ simulation' = [simulation EXCEPT !.portfolios[CurrentName] = Rebalanced(@)]
    /\ steps' = Append(steps, [year |-> loop.year, name |-> CurrentName,
                               statement |-> "rebalance"])
    /\ loop' = Advance(simulation, loop, "rebalance")
    /\ UNCHANGED notSimulation

\* line 249: return self.results
run_simulation_returns ==
    /\ loop.pc = "year"
    /\ loop.year > simulation.end_year
    /\ loop' = [loop EXCEPT !.pc = "returned"]
    /\ UNCHANGED <<simulation, steps, notSimulation>>

SimulationNext ==
    \/ year_begin
    \/ portfolio_apply_returns
    \/ portfolio_withdraw
    \/ results_append
    \/ portfolio_rebalance
    \/ run_simulation_returns

-----------------------------------------------------------------------------
(* Portfolio(initial_value, allocations): the constructor on any allocation map *)

CtorAssets == {"sp500", "bonds", "notes"}

CtorWeights == {Zero, Rat(1, 4), Rat(1, 2), One, Num(3)}

\* every map from some of the assets to a weight, the empty map included
CtorAllocationMaps == UNION { [D -> CtorWeights] : D \in SUBSET CtorAssets }

\* _validate_allocations, line 40: a total of 0 is not close to 1 and the
\* division by it raises ZeroDivisionError on Python floats; on numpy floats
\* it yields NaN weights.  An empty map has no weight to divide.
ValidateRaises(allocations, num) ==
    /\ DOMAIN allocations # {}
    /\ RSum(allocations) = Zero
    /\ num = "python"

ConstructionInit == constructed = NoCall

ConstructionIdle == ConstructionInit

construct ==
    /\ constructed = NoCall
    /\ \E initial_value \in InitialValues, allocations \in CtorAllocationMaps,
          num \in {"python", "numpy"} :
          constructed' =
              IF ValidateRaises(allocations, num)
              THEN [op |-> "Portfolio", initial_value |-> initial_value,
                    allocations |-> allocations, weights |-> num, raised |-> TRUE]
              ELSE [op |-> "Portfolio", initial_value |-> initial_value,
                    allocations |-> allocations, weights |-> num, raised |-> FALSE,
                    portfolio |-> NewPortfolio(initial_value, allocations)]
    /\ UNCHANGED notConstruction

ConstructionNext == construct

-----------------------------------------------------------------------------
(* Participation-rate pricing: note_calculator.py.  The prices are numpy      *)
(* floats built from exp, log and the normal distribution; the model keeps    *)
(* of each of them its class: "nan", "ninf", "pinf", or the sign of a finite  *)
(* number ("neg", "zero", "pos").  numpy's float division by zero yields an   *)
(* infinity or a NaN with a warning; it does not raise.                       *)

SignOf(x) == IF x = Zero THEN "zero" ELSE IF RLt(Zero, x) THEN "pos" ELSE "neg"

\* -ln(1 - protection_level) for the protection levels of the model, to five
\* decimals
NegLogOneMinus(protection_level) ==
    CASE protection_level = Zero -> Zero
      [] protection_level = Rat(1, 10) -> Rat(10536, 100000)
      [] protection_level = Rat(1, 5) -> Rat(22314, 100000)

\* the numerator of d1, lines 35 and 50: np.log(S_adj / K) + (r + 0.5 * sigma^2) * T
\* with S_adj = S * exp(-div_yield * T)
D1Numerator(log_S_over_K, T, r, adjusted_sigma, div_yield) ==
    RAdd(RSub(log_S_over_K, RMul(div_yield, T)),
         RMul(RAdd(r, RMul(Rat(1, 2), RMul(adjusted_sigma, adjusted_sigma))), T))

\* d1 = numerator / (adjusted_sigma * np.sqrt(T)), for non-negative sigma and T
D1(numerator, T, adjusted_sigma) ==
    IF adjusted_sigma # Zero /\ T # Zero THEN SignOf(numerator)
    ELSE CASE SignOf(numerator) = "pos" -> "pinf"
           [] SignOf(numerator) = "neg" -> "ninf"
           [] OTHER -> "nan"

IsFinite(c) == c \in {"neg", "zero", "pos"}

\* black_scholes_call at the money (K = S): S_adj * cdf(d1) - K * exp(-r T) * cdf(d2),
\* where d2 is infinite or a NaN with d1
BlackScholesCall(T, r, sigma, div_yield, iv_factor) ==
    LET adjusted_sigma == RMul(sigma, iv_factor)
        d1 == D1(D1Numerator(Zero, T, r, adjusted_sigma, div_yield), T, adjusted_sigma)
    IN  CASE IsFinite(d1) -> "pos"
          [] d1 = "pinf" -> "pos"
          [] d1 = "ninf" -> "zero"
          [] OTHER -> "nan"

\* black_scholes_put with K = S * (1 - protection_level):
\* K * exp(-r T) * cdf(-d2) - S_adj * cdf(-d1)
BlackScholesPut(protection_level, T, r, sigma, div_yield, iv_factor) ==
    LET adjusted_sigma == RMul(sigma, iv_factor)
        d1 == D1(D1Numerator(NegLogOneMinus(protection_level), T, r, adjusted_sigma,
                             div_yield), T, adjusted_sigma)
    IN  CASE IsFinite(d1) -> "pos"
          [] d1 = "pinf" -> "zero"
          [] d1 = "ninf" -> "pos"
          [] OTHER -> "nan"

\* calculate_participation_rate, lines 62-87, for a positive start_price: the
\* class of the number returned.  No statement of it raises.
CalculateParticipationRate(rf_rate, sigma, protection_level, term, iv_factor, funding_spread, div_yield) ==
    LET funding_rf == RAdd(rf_rate, funding_spread)
        bond_price == RDiv(One, RPow(RAdd(One, funding_rf), term))
        bond_capital == RSub(One, bond_price)
        put_premium == BlackScholesPut(protection_level, Num(term), rf_rate, sigma,
                                       div_yield, iv_factor)
        call_price == BlackScholesCall(Num(term), rf_rate, sigma, div_yield, iv_factor)
        total_available ==
            CASE put_premium = "nan" -> "nan"
              [] put_premium = "pos" -> "pos"
              [] OTHER -> SignOf(bond_capital)
        participation ==
            CASE total_available = "nan" \/ call_price = "nan" -> "nan"
              [] call_price = "zero" /\ total_available = "zero" -> "nan"
              [] call_price = "zero" -> "pinf"
              [] OTHER -> total_available
    IN  \* min(participation, 2.0): 2.0 replaces participation only if 2.0 < participation
        [raised |-> FALSE,
         returned |-> IF participation = "pinf" THEN "pos" ELSE participation]

PricingSigmas == {Zero, Rat(1, 5)}

PricingIvFactors == {Zero, Rat(9, 10)}

PricingTerms == {0, 1}

\* rates and yields that differ, so that no numerator of d1 is a rounding error
PricingRates == {Rat(1, 100), Rat(5, 100)}

PricingYields == {Zero, Rat(2, 100)}

PricingSpreads == {Zero, Rat(15, 1000)}

PricingProtections == {Zero, Rat(1, 10), Rat(1, 5)}

PricingInit == pricing = NoCall

PricingIdle == PricingInit

calculate_participation_rate ==
    /\ pricing = NoCall
    /\ \E rf_rate \in PricingRates, sigma \in PricingSigmas,
          protection_level \in PricingProtections, term \in PricingTerms,
          iv_factor \in PricingIvFactors, funding_spread \in PricingSpreads,
          div_yield \in PricingYields :
          LET r == CalculateParticipationRate(rf_rate, sigma, protection_level, term,
                                              iv_factor, funding_spread, div_yield)
          IN  pricing' = [op |-> "calculate_participation_rate", rf_rate |-> rf_rate,
                          sigma |-> sigma, protection_level |-> protection_level,
                          term |-> term, iv_factor |-> iv_factor,
                          funding_spread |-> funding_spread, div_yield |-> div_yield,
                          raised |-> r.raised, returned |-> r.returned]
    /\ UNCHANGED notPricing

PricingNext == calculate_participation_rate

-----------------------------------------------------------------------------
(* The entry point: main.py builds the withdrawal parameters from the command *)
(* line and PortfolioSimulation hands them to create_withdrawal_strategy      *)

\* setup_withdrawal_params(args); None is the dict with no key
SetupWithdrawalParams(args) ==
    IF args.withdrawal_rate = Zero THEN << >>
    ELSE IF args.withdrawal_type = "rmd"
    THEN [type |-> args.withdrawal_type, rate |-> args.withdrawal_rate,
          start_year |-> args.start_year, initial_age |-> args.initial_age]
    ELSE [type |-> args.withdrawal_type, rate |-> args.withdrawal_rate,
          start_year |-> args.start_year]

\* the choices of --withdrawal_type
WithdrawalTypes == {"fixed_percent", "fixed_dollar", "rmd"}

EntryRates == {Zero, Rat(4, 100), Rat(5, 100)}

EntryAges == {60, 65, 70, 72, 75, 80}

EntryStartYears == {2000, 2010}

EntryInit == entry = NoCall

EntryIdle == EntryInit

\* main(): setup_withdrawal_params, then PortfolioSimulation.__init__
main ==
    /\ entry = NoCall
    /\ \E withdrawal_type \in WithdrawalTypes, withdrawal_rate \in EntryRates,
          initial_age \in EntryAges, start_year \in EntryStartYears :
          LET args == [withdrawal_type |-> withdrawal_type,
                       withdrawal_rate |-> withdrawal_rate,
                       initial_age |-> initial_age, start_year |-> start_year]
              withdrawal_params == SetupWithdrawalParams(args)
          IN  entry' = [op |-> "main", args |-> args,
                        withdrawal_params |-> withdrawal_params,
                        withdrawal_strategy |->
                            InitializeWithdrawalStrategy(withdrawal_params, start_year)]
    /\ UNCHANGED notEntry

EntryNext == main

-----------------------------------------------------------------------------
(* The note return of one year, computed by the sweep and by the engine *)

CompareReturns == {Rat(-1, 2), Rat(-1, 10), Rat(1, 5)}

\* note_row of run_single_simulation over a table in file order: .iloc[0]
\* reads the first of the rows that match
FirstMatchingRow(rows, calendar_year, protection_level) ==
    LET matching == SelectSeq(rows, LAMBDA r : r.year = calendar_year
                                              /\ r.protection_level = protection_level)
    IN  IF matching = << >> THEN {} ELSE {matching[1]}

\* run_single_simulation, lines 321-344, for a portfolio that holds notes
SweepNoteReturn(rows, protection_level, calendar_year, sp500_return) ==
    RunNoteReturn([note_allocation |-> One, protection_level |-> protection_level],
                  [notes |-> FirstMatchingRow(rows, calendar_year, protection_level)],
                  calendar_year, sp500_return)

\* _get_year_returns of a PortfolioSimulation given the table and the requested
\* protection level: the note returns the call may compute
EngineNoteReturns(rows, protection_level, year, sp500_return) ==
    { CalculateReturn(CreateNote(note_params), sp500_return) :
        note_params \in GetNoteForYear(
            [pre_selected_notes |-> << >>,
             notes_data |-> [present |-> TRUE, rows |-> rows],
             note_selection_params |-> [protection_level |-> protection_level]], year) }

CompareInit == compared = NoCall

CompareIdle == CompareInit

compare_note_returns ==
    /\ compared = NoCall
    /\ \E rows \in NoteTables, year \in Years, sp500_return \in CompareReturns,
          protection_level \in {Rat(5, 100), Rat(10, 100)} :
          \E engine \in EngineNoteReturns(rows, protection_level, year, sp500_return) :
             compared' = [op |-> "note_return", rows |-> rows, year |-> year,
                          protection_level |-> protection_level,
                          sp500_return |-> sp500_return,
                          sweep |-> SweepNoteReturn(rows, protection_level, year,
                                                    sp500_return),
                          engine |-> engine]
    /\ UNCHANGED notCompare

CompareNext == compare_note_returns

-----------------------------------------------------------------------------
(* Specifications: one per component, the other components left idle *)

InitPortfolio == PortfolioInit /\ NotesIdle /\ SelectionIdle /\ SweepIdle /\ RunIdle /\ PoolIdle /\ StrategyIdle /\ DrawdownIdle /\ SimulationIdle /\ ConstructionIdle /\ PricingIdle /\ EntryIdle /\ CompareIdle

SpecPortfolio == InitPortfolio /\ [][PortfolioNext]_vars

InitNotes == NotesInit /\ PortfolioIdle /\ SelectionIdle /\ SweepIdle /\ RunIdle /\ PoolIdle /\ StrategyIdle /\ DrawdownIdle /\ SimulationIdle /\ ConstructionIdle /\ PricingIdle /\ EntryIdle /\ CompareIdle

SpecNotes == InitNotes /\ [][NotesNext]_vars

InitSelection == SelectionInit /\ PortfolioIdle /\ NotesIdle /\ SweepIdle /\ RunIdle /\ PoolIdle /\ StrategyIdle /\ DrawdownIdle /\ SimulationIdle /\ ConstructionIdle /\ PricingIdle /\ EntryIdle /\ CompareIdle

SpecSelection == InitSelection /\ [][SelectionNext]_vars

InitSweep == SweepInit /\ PortfolioIdle /\ NotesIdle /\ SelectionIdle /\ RunIdle /\ PoolIdle /\ StrategyIdle /\ DrawdownIdle /\ SimulationIdle /\ ConstructionIdle /\ PricingIdle /\ EntryIdle /\ CompareIdle

SpecSweep == InitSweep /\ [][SweepNext]_vars

InitRun == RunInit /\ PortfolioIdle /\ NotesIdle /\ SelectionIdle /\ SweepIdle /\ PoolIdle /\ StrategyIdle /\ DrawdownIdle /\ SimulationIdle /\ ConstructionIdle /\ PricingIdle /\ EntryIdle /\ CompareIdle

SpecRun == InitRun /\ [][RunNext]_vars

InitPool == PoolInit /\ PortfolioIdle /\ NotesIdle /\ SelectionIdle /\ SweepIdle /\ RunIdle /\ StrategyIdle /\ DrawdownIdle /\ SimulationIdle /\ ConstructionIdle /\ PricingIdle /\ EntryIdle /\ CompareIdle

SpecPool == InitPool /\ [][PoolNext]_vars

InitStrategy == StrategyInit /\ PortfolioIdle /\ NotesIdle /\ SelectionIdle /\ SweepIdle /\ RunIdle /\ PoolIdle /\ DrawdownIdle /\ SimulationIdle /\ ConstructionIdle /\ PricingIdle /\ EntryIdle /\ CompareIdle

SpecStrategy == InitStrategy /\ [][StrategyNext]_vars

InitDrawdown == DrawdownInit /\ PortfolioIdle /\ NotesIdle /\ SelectionIdle /\ SweepIdle /\ RunIdle /\ PoolIdle /\ StrategyIdle /\ SimulationIdle /\ ConstructionIdle /\ PricingIdle /\ EntryIdle /\ CompareIdle

SpecDrawdown == InitDrawdown /\ [][DrawdownNext]_vars

InitSimulation == SimulationInit /\ PortfolioIdle /\ NotesIdle /\ SelectionIdle /\ SweepIdle /\ RunIdle /\ PoolIdle /\ StrategyIdle /\ DrawdownIdle /\ ConstructionIdle /\ PricingIdle /\ EntryIdle /\ CompareIdle

SpecSimulation == InitSimulation /\ [][SimulationNext]_vars

InitConstruction == ConstructionInit /\ PortfolioIdle /\ NotesIdle /\ SelectionIdle /\ SweepIdle /\ RunIdle /\ PoolIdle /\ StrategyIdle /\ DrawdownIdle /\ SimulationIdle /\ PricingIdle /\ EntryIdle /\ CompareIdle

SpecConstruction == InitConstruction /\ [][ConstructionNext]_vars

InitPricing == PricingInit /\ PortfolioIdle /\ NotesIdle /\ SelectionIdle /\ SweepIdle /\ RunIdle /\ PoolIdle /\ StrategyIdle /\ DrawdownIdle /\ SimulationIdle /\ ConstructionIdle /\ EntryIdle /\ CompareIdle

SpecPricing == InitPricing /\ [][PricingNext]_vars

InitEntry == EntryInit /\ PortfolioIdle /\ NotesIdle /\ SelectionIdle /\ SweepIdle /\ RunIdle /\ PoolIdle /\ StrategyIdle /\ DrawdownIdle /\ SimulationIdle /\ ConstructionIdle /\ PricingIdle /\ CompareIdle

SpecEntry == InitEntry /\ [][EntryNext]_vars

InitCompare == CompareInit /\ PortfolioIdle /\ NotesIdle /\ SelectionIdle /\ SweepIdle /\ RunIdle /\ PoolIdle /\ StrategyIdle /\ DrawdownIdle /\ SimulationIdle /\ ConstructionIdle /\ PricingIdle /\ EntryIdle

SpecCompare == InitCompare /\ [][CompareNext]_vars

-----------------------------------------------------------------------------
(* Claims *)

\* C1: after construction and after every completed call of rebalance,
\* apply_returns and withdraw, current_value equals the sum of asset_values.
C1_ValueIsSumOfAssets ==
    (last.op = "none" \/ ~last.raised) =>
        REq(portfolio.current_value, RSum(portfolio.asset_values))

\* C2: withdraw(amount) with amount >= 0 on a portfolio of value >= 0 never
\* raises, returns min(amount, pre-call value) and leaves value = pre - returned.
C2_WithdrawCapped ==
    (last.op = "withdraw" /\ RLe(Zero, last.pre_value)) =>
        /\ ~last.raised
        /\ last.returned = PyMin(last.amount, last.pre_value)
        /\ RLe(last.returned, last.pre_value)
        /\ REq(portfolio.current_value, RSub(last.pre_value, last.returned))

\* C3: for an underlying return u > 0 the note return is u * participation
\* rate, for a Buffer and for a Floor note alike, whatever the protection level.
C3_UpsideScaledByParticipation ==
    (payoff.op = "calculate_return" /\ RLt(Zero, payoff.underlying_return)) =>
        payoff.result = RMul(payoff.underlying_return, note.participation_rate)

C3_Witness ==
    /\ payoff.op = "calculate_return"
    /\ note.class = "FlooredNote"
    /\ note.protection_level = Rat(1, 4)
    /\ note.participation_rate = Rat(9, 10)
    /\ payoff.underlying_return = Rat(8, 100)
    /\ payoff.result = Rat(72, 1000)

\* C4: a Buffer note with protection level p returns, for u <= 0, 0 when
\* |u| <= p and -(|u| - p) when |u| > p (calculate_return and simple_note_payoff).
C4_BufferAbsorbsLoss ==
    LET u == payoff.underlying_return
        Expected(p) == IF RLe(RNeg(u), p) THEN Zero ELSE RAdd(u, p)
    IN  /\ (payoff.op = "calculate_return" /\ note.class = "BufferedNote"
              /\ RLe(u, Zero)) =>
               payoff.result = Expected(note.protection_level)
        /\ (payoff.op = "simple_note_payoff" /\ payoff.protection_type = "Buffer"
              /\ RLe(u, Zero)) =>
               payoff.result = Expected(payoff.protection_level)

C4_Witness ==
    /\ payoff.op = "calculate_return"
    /\ note.class = "BufferedNote"
    /\ note.protection_level = Rat(1, 10)
    /\ payoff.underlying_return = Rat(-15, 100)
    /\ payoff.result = Rat(-5, 100)

\* C5: a Floor note with protection level p returns max(u, -p) for u <= 0:
\* the loss itself down to -p, and -p beyond it.
C5_FloorCapsLoss ==
    LET u == payoff.underlying_return
    IN  (payoff.op = "calculate_return" /\ note.class = "FlooredNote"
           /\ RLe(u, Zero)) =>
            /\ RLe(RNeg(note.protection_level), u) => payoff.result = u
            /\ RLt(u, RNeg(note.protection_level)) =>
                   payoff.result = RNeg(note.protection_level)

C5_Witness ==
    /\ payoff.op = "calculate_return"
    /\ note.class = "FlooredNote"
    /\ note.protection_level = Rat(1, 10)
    /\ payoff.underlying_return = Rat(-1, 4)
    /\ payoff.result = Rat(-1, 10)

\* C6: the note returned for a year is the pre-assigned note of that year when
\* there is one; otherwise, for a requested protection level, a tabulated note
\* of the year at exactly that level when there is one; otherwise a tabulated
\* note of the year at the smallest absolute distance from the requested level.
C6_SelectionPreference ==
    selected.op = "_get_note_for_year" =>
        LET year == selected.year
            r == selected.returned
            rows == sim.notes_data.rows
            OfYear == {i \in DOMAIN rows : rows[i].year = year}
            target == sim.note_selection_params["protection_level"]
            Exact == {i \in OfYear : rows[i].protection_level = target}
            Dist(level) == RAbs(RSub(level, target))
        IN  /\ year \in DOMAIN sim.pre_selected_notes =>
                r = sim.pre_selected_notes[year]
            /\ (year \notin DOMAIN sim.pre_selected_notes
                  /\ "protection_level" \in DOMAIN sim.note_selection_params
                  /\ Exact # {}) =>
                \E i \in Exact : r = rows[i]
            /\ (year \notin DOMAIN sim.pre_selected_notes
                  /\ "protection_level" \in DOMAIN sim.note_selection_params
                  /\ Exact = {} /\ OfYear # {}) =>
                \E i \in OfYear :
                    /\ \A k \in DOMAIN rows[i] : r[k] = rows[i][k]
                    /\ \A j \in OfYear :
                          RLe(Dist(rows[i].protection_level),
                              Dist(rows[j].protection_level))

\* a closest match that is not exact, in a table holding a farther note too
C6_Witness ==
    /\ selected.op = "_get_note_for_year"
    /\ selected.year \notin DOMAIN sim.pre_selected_notes
    /\ "protection_level" \in DOMAIN sim.note_selection_params
    /\ sim.note_selection_params["protection_level"] = Rat(10, 100)
    /\ Len(sim.notes_data.rows) = 2
    /\ sim.notes_data.rows[1].year = selected.year
    /\ sim.notes_data.rows[2].year = selected.year
    /\ sim.notes_data.rows[1].protection_level = Rat(20, 100)
    /\ sim.notes_data.rows[2].protection_level = Rat(15, 100)
    /\ selected.returned.protection_level = Rat(15, 100)

\* C7: the hard-coded default note is returned exactly when the year has no
\* pre-assigned note and the note table has no entry for the year.
C7_DefaultOnlyWithoutEntry ==
    selected.op = "_get_note_for_year" =>
        LET year == selected.year
            rows == sim.notes_data.rows
        IN  (selected.returned = DefaultParams(year)) <=>
                /\ year \notin DOMAIN sim.pre_selected_notes
                /\ \A i \in DOMAIN rows : rows[i].year # year

\* the elements of a list
Range(f) == {f[i] : i \in DOMAIN f}

\* C8: the generated parameters are exactly the cross-product of start years,
\* horizons, portfolio types, withdrawal rates and (for a type that holds
\* notes) protection levels, restricted to the combinations whose start_year +
\* horizon does not exceed the available data; nothing else is submitted.
C8_CrossProductWithinData ==
    LET Combos ==
            { [start_year |-> sy, time_horizon |-> h, portfolio_type |-> pt.name,
               protection_level |-> pl, withdrawal_rate |-> w] :
                sy \in Range(params.start_years), h \in Range(params.time_horizons),
                pt \in Range(params.portfolio_allocations),
                pl \in Range(params.protection_levels) \cup {None},
                w \in Range(params.rates) }
        Holds(c) ==
            \E pt \in Range(params.portfolio_allocations) :
                /\ pt.name = c.portfolio_type
                /\ (pt.notes = Zero) <=> (c.protection_level = None)
        Expected ==
            { c \in Combos :
                Holds(c) /\ c.start_year + c.time_horizon <= market_data.last_year }
        Key(sp) ==
            [start_year |-> sp.start_year, time_horizon |-> sp.time_horizon,
             portfolio_type |-> sp.portfolio_type,
             protection_level |-> sp.protection_level,
             withdrawal_rate |-> sp.withdrawal_rate]
    IN  /\ sweep_pc \in {"generated", "submitted"} =>
               {Key(sim_params_list[i]) : i \in DOMAIN sim_params_list} = Expected
        /\ sweep_pc = "submitted" =>
               {Key(submitted[i]) : i \in DOMAIN submitted} \subseteq Expected

\* C9: two generated combinations that differ in start year, portfolio type,
\* protection level, withdrawal rate or horizon have different sim_ids.
C9_SimIdsUnique ==
    \A i, j \in DOMAIN sim_params_list :
        i # j => sim_params_list[i].sim_id # sim_params_list[j].sim_id


C11_SimulationFailureContained ==
    /\ \A i \in saved : workers[i].status = "returned"
    /\ db.simulations = {SimulationRow(workers[i].result) : i \in saved}
    /\ db.yearly_results = UNION {YearlyRows(workers[i].result) : i \in saved}
    /\ \A i \in collected :
          workers[i].status = "raised" => i \in error_log /\ i \notin saved
    /\ pool_pc = "loop" =>
          \/ \E i \in Futures : CanStart(i) \/ CanSimulate(i) \/ CanCollect(i)
          \/ InSave
          \/ CanFinish
    /\ pool_pc = "finished" =>
          /\ collected = Futures
          /\ \A i \in Futures :
                /\ Completed(i)
                /\ workers[i].status = "raised" => i \in error_log
                /\ workers[i].status = "returned" /\ i \notin error_log =>
                      /\ i \in saved
                      /\ SimulationRow(workers[i].result) \in db.simulations
                      /\ YearlyRows(workers[i].result) \subseteq db.yearly_results

\* a finished sweep in which one simulation raised and another was persisted
C11_Witness ==
    /\ pool_pc = "finished"
    /\ \E i \in Futures : workers[i].status = "raised" /\ i \in error_log
    /\ \E i \in Futures : workers[i].status = "returned" /\ i \in saved


\* a returned future that the loop has logged: its save_simulation_results
\* raised
SaveFailed(i) == i \in error_log /\ workers[i].status = "returned"

\* C12: a write failure to the result store is fatal to the batch: once
\* save_simulation_results has failed for one result, no further save is
\* begun and no further result is written in that sweep
C12_WriteFailureFatal ==
    [][(pool_pc = "loop" /\ \E i \in Futures : SaveFailed(i)) =>
            UNCHANGED <<db, saving>>]_vars


\* C13: persistence is single-writer: only the coordinating process holds a
\* connection to the store, and it holds at most one, that of the result it
\* is saving; worker processes hold none, whatever the number of workers and
\* the order in which the simulations complete
C13_SingleWriter ==
    /\ Cardinality(connections) <= 1
    /\ \A c \in connections : c.owner = "coordinator" /\ saving # 0 /\ c.future = saving
    /\ saving # 0 => workers[saving].status = "returned" /\ saving \notin collected

\* a save is in progress while a worker is still simulating and a further
\* completed result is waiting to be saved
C13_Witness ==
    /\ saving # 0
    /\ connections # {}
    /\ \E j \in Futures : workers[j].status = "running"
    /\ \E k \in Futures \ {saving} : workers[k].status = "returned" /\ k \notin collected

\* C14: concurrent runs share no mutable state: under every interleaving and
\* every worker count a run works on the parameters and market data it was
\* submitted with, and what it produces (yearly results and summary, or the
\* exception) is what run_single_simulation produces when executed alone
C14_RunsIndependent ==
    /\ tasks = Stamp(GenerateSimulationParameters(pool_params), clock)
    /\ \A i \in Futures :
          LET w     == workers[i]
              alone == RunAlone(tasks[i], pool_data)
          IN  /\ w.status = "running" =>
                    /\ w.sim_params = tasks[i]
                    /\ w.market_data = pool_data
                    /\ RunFrom(tasks[i], pool_data, w.yearly_results) = alone
              /\ w.status = "raised" => alone.status = "raised"
              /\ w.status = "returned" =>
                    /\ alone.status = "returned"
                    /\ w.result.yearly_results = alone.yearly_results
                    /\ w.result.sim_params = tasks[i] @@ alone.summary

\* two runs are inside their year loops at the same time while a third has
\* already returned
C14_Witness ==
    /\ num_workers = 2
    /\ \E i, j \in Futures :
          /\ i # j
          /\ workers[i].status = "running" /\ Len(workers[i].yearly_results) = 1
          /\ workers[j].status = "running" /\ Len(workers[j].yearly_results) = 1
    /\ \E k \in Futures : workers[k].status = "returned"

\* C15: given identical market data and identical configuration, two runs of
\* the sweep produce identical result tables (the same rows with the same
\* values in every stored column of simulations and yearly_results),
\* whatever the wall-clock time and the order in which the workers complete
C15_SweepDeterministic ==
    (pool_pc = "finished" /\ previous_db # NoObject /\ io_failures = 0) =>
        db = previous_db


\* C17: for an inflation-adjusted FixedPercentage strategy the anchor is the
\* portfolio value of the first calculate_withdrawal call and no later call
\* changes it; the withdrawal for calendar year y is
\* rate * anchor * (1 + inflation)^(y - start_year), capped at the current
\* portfolio value
C17_AnchorCapturedOnce ==
    (strategy.class = "FixedPercentageWithdrawal" /\ strategy.inflation_adjusted
        /\ whist # << >>) =>
        /\ strategy.initial_portfolio_value = whist[1].portfolio_value
        /\ strategy.start_year # NoStartYear =>
              \A k \in DOMAIN whist :
                  whist[k].returned =
                      PyMin(RMul(RMul(strategy.rate, whist[1].portfolio_value),
                                 RPow(RAdd(One, strategy.inflation_rate),
                                      whist[k].current_year - strategy.start_year)),
                            whist[k].portfolio_value)

\* a later call with a different portfolio value and a different year than
\* the first, whose withdrawal is below the cap
C17_Witness ==
    /\ strategy.class = "FixedPercentageWithdrawal" /\ strategy.inflation_adjusted
    /\ strategy.start_year # NoStartYear
    /\ Len(whist) >= 2
    /\ whist[2].portfolio_value # whist[1].portfolio_value
    /\ whist[1].portfolio_value # Zero
    /\ whist[2].current_year > whist[1].current_year
    /\ RLt(whist[2].returned, whist[2].portfolio_value)

\* the age of the k-th call of an RMD strategy with a start year
AgeAt(k) == strategy.starting_age + (whist[k].current_year - strategy.start_year)

\* C18: for the RMD strategy with age = starting_age + (year - start_year),
\* the withdrawal is 0 for every age below the configured starting age;
\* otherwise it is portfolio_value / divisor(age) with the divisor of the age
\* in the table of ages 72 to 100 (20.2 at age 80), and the age-100 factor 6.4
\* for every age above 100
C18_RmdByAge ==
    (strategy.class = "RMDWithdrawal" /\ strategy.start_year # NoStartYear) =>
        \A k \in DOMAIN whist :
            IF AgeAt(k) < strategy.starting_age THEN whist[k].returned = Zero
            ELSE IF AgeAt(k) > 100
            THEN whist[k].returned = RDiv(whist[k].portfolio_value, Rat(64, 10))
            ELSE /\ AgeAt(k) \in DOMAIN rmd_factors
                 /\ whist[k].returned =
                       RDiv(whist[k].portfolio_value, rmd_factors[AgeAt(k)])

\* C20 (as stated): for every allocation map with positive weights and every
\* portfolio value, a current_value of 0 included, rebalance() followed by
\* get_asset_allocations() returns the normalized weights.
C20_RebalanceRestoresWeights ==
    last.op = "rebalance" => GetAssetAllocations(portfolio) = portfolio.allocations

\* C20 (amended): rebalance() followed by get_asset_allocations() returns the
\* normalized weights when current_value is a number not close to 0, returns 0
\* for every asset when current_value is close to 0, and a NaN for every asset
\* when current_value is a NaN.
C20_RebalanceRestoresWeightsOfValue ==
    last.op = "rebalance" =>
        LET got == GetAssetAllocations(portfolio)
        IN  /\ DOMAIN got = DOMAIN portfolio.allocations
            /\ \A a \in DOMAIN got :
                   got[a] = IF IsNaN(portfolio.current_value) THEN NaN
                            ELSE IF portfolio.current_value = Zero THEN Zero
                            ELSE portfolio.allocations[a]

\* a portfolio whose value moved away from its initial value, rebalanced
C20_Witness ==
    /\ last.op = "rebalance"
    /\ ~IsNaN(portfolio.current_value)
    /\ RLt(Zero, portfolio.current_value)
    /\ portfolio.current_value # portfolio.initial_value
    /\ GetAssetAllocations(portfolio) = portfolio.allocations


\* the relative declines from a positive value of the sequence to itself or to
\* a later one
Declines(values) ==
    { RDiv(RSub(values[ij[1]], values[ij[2]]), values[ij[1]]) :
        ij \in { p \in (DOMAIN values) \X (DOMAIN values) :
                    p[1] <= p[2] /\ RLt(Zero, values[p[1]]) } }

LargestDecline(values) ==
    LET S == Declines(values) \cup {Zero}
    IN  CHOOSE x \in S : \A y \in S : RLe(y, x)

NonDecreasing(values) ==
    \A i \in DOMAIN values : i > 1 => RLe(values[i - 1], values[i])

\* C19: for every sequence of portfolio values, both maximum-drawdown
\* computations return the largest relative decline from an earlier-or-equal
\* value to a later one (the result of the running-peak scan); it is 25% for
\* [100, 120, 90, 110] and 0 for a non-decreasing sequence.
C19_MaxDrawdownIsLargestDecline ==
    drawdowns.op # "none" =>
        /\ drawdowns.returned = LargestDecline(drawdowns.values)
        /\ (drawdowns.values = <<Num(100), Num(120), Num(90), Num(110)>>
               => drawdowns.returned = Rat(25, 100))
        /\ (NonDecreasing(drawdowns.values) => drawdowns.returned = Zero)

C19_Witness ==
    /\ drawdowns.op = "_calculate_max_drawdown"
    /\ drawdowns.values = <<Num(100), Num(120), Num(90), Num(110)>>
    /\ drawdowns.returned = Rat(1, 4)


\* the statements of one loop body in the order the claim gives them
BodyStatements(has_strategy) ==
    IF has_strategy THEN <<"apply_returns", "withdraw", "append", "rebalance">>
    ELSE <<"apply_returns", "append", "rebalance">>

\* the k-th statement of a run that goes through the years in ascending order
\* and, within a year, through the portfolios in their order
ExpectedStep(s, k) ==
    LET body == BodyStatements(s.withdrawal_strategy # NoObject)
        per_year == Len(s.names) * Len(body)
    IN  [year |-> s.start_year + ((k - 1) \div per_year),
         name |-> s.names[(((k - 1) % per_year) \div Len(body)) + 1],
         statement |-> body[((k - 1) % Len(body)) + 1]]

YearsOfRun(s) == IF s.end_year < s.start_year THEN 0 ELSE s.end_year - s.start_year + 1

\* C16: run_simulation processes the years in ascending order from start_year
\* to end_year and, for every portfolio in every year, applies returns, then
\* withdraws (when a strategy exists), then appends one yearly result, then
\* rebalances; each result list holds one entry per year, oldest first, and
\* after each rebalance every asset value is current_value times its weight.
C16_YearsAndStepsInOrder ==
    simulation # NoObject =>
        /\ loop.pc # "raised"
        /\ \A k \in DOMAIN steps : steps[k] = ExpectedStep(simulation, k)
        /\ \A name \in DOMAIN simulation.results :
               LET results == simulation.results[name]
               IN  /\ \A i \in DOMAIN results :
                          results[i].year = simulation.start_year + i - 1
                   /\ Len(results) =
                          Cardinality({k \in DOMAIN steps :
                              steps[k].name = name /\ steps[k].statement = "append"})
                   /\ loop.pc = "returned" => Len(results) = YearsOfRun(simulation)
        /\ loop.pc = "returned" =>
               Len(steps) = YearsOfRun(simulation) * Len(simulation.names)
                   * Len(BodyStatements(simulation.withdrawal_strategy # NoObject))
        /\ (steps # << >> /\ steps[Len(steps)].statement = "rebalance") =>
               LET p == simulation.portfolios[steps[Len(steps)].name]
               IN  \A a \in DOMAIN p.allocations :
                      p.asset_values[a] = RMul(p.current_value, p.allocations[a])

\* a finished run of two portfolios over all the years, with withdrawals made
C16_Witness ==
    /\ simulation # NoObject
    /\ loop.pc = "returned"
    /\ Len(simulation.names) = 2
    /\ simulation.withdrawal_strategy # NoObject
    /\ Len(steps) = MaxSimYears * 2 * 4
    /\ \A name \in DOMAIN simulation.results :
          /\ Len(simulation.results[name]) = MaxSimYears
          /\ RLt(Zero, simulation.results[name][1].withdrawal)
          /\ simulation.results[name][MaxSimYears].year = SimStartYear + MaxSimYears - 1


\* C21: constructing a Portfolio never rejects an allocation map; for every
\* input map the call completes and the weights of the object sum to 1.
C21_NeverRejectedAndNormalized ==
    constructed.op = "Portfolio" =>
        /\ ~constructed.raised
        /\ RSum(constructed.portfolio.allocations) = One


\* the calendar years of a sweep run for which both the S&P 500 frame and the
\* bond frame have a row
OverlappingYears(sp, data) ==
    { y \in (sp.start_year + 1)..(sp.start_year + sp.time_horizon) :
        y \in DOMAIN data.sp500 /\ y \in DOMAIN data.bonds }

\* C22: when the required return series have no overlapping year in the
\* requested range, the simulation fails and produces no results: it does not
\* return, and it records no year computed from substituted returns.
C22_DataGapFails ==
    (run_params # NoObject /\ run_params.time_horizon >= 1
        /\ OverlappingYears(run_params, run_data) = {}) =>
        /\ run_status # "done"
        /\ \A i \in DOMAIN yearly_results : yearly_results[i].year = 0


\* C23: participation-rate pricing treats a zero volatility (sigma = 0 or
\* iv_factor * sigma = 0) or a zero term as a configuration error:
\* calculate_participation_rate signals an error and returns no number.
C23_ZeroVolatilityOrTermIsError ==
    (pricing.op = "calculate_participation_rate"
        /\ (RMul(pricing.sigma, pricing.iv_factor) = Zero \/ pricing.term = 0)) =>
        pricing.raised


ClassOfType(withdrawal_type) ==
    CASE withdrawal_type = "fixed_percent" -> "FixedPercentageWithdrawal"
      [] withdrawal_type = "fixed_dollar" -> "FixedDollarWithdrawal"
      [] withdrawal_type = "rmd" -> "RMDWithdrawal"

\* C25: for each withdrawal type selectable at the entry point, the parameters
\* built by setup_withdrawal_params make create_withdrawal_strategy instantiate
\* the corresponding strategy class, and the configured starting age reaches
\* the RMD strategy.
C25_FactoryMapsTagEndToEnd ==
    (entry.op = "main" /\ entry.args.withdrawal_rate # Zero) =>
        /\ entry.withdrawal_strategy.class = ClassOfType(entry.args.withdrawal_type)
        /\ entry.args.withdrawal_type = "rmd" =>
               entry.withdrawal_strategy.starting_age = entry.args.initial_age


\* the divisor a call applied, read off its result: portfolio_value / returned
DivisorApplied(call) == RDiv(call.portfolio_value, call.returned)

\* C26: for an RMD strategy driven over ascending calendar years, with any
\* configured starting_age, the age used never decreases from one call to the
\* next and the divisor applied never increases.
C26_RmdAgeUpDivisorDown ==
    [][(strategy.class = "RMDWithdrawal" /\ whist # << >> /\ Len(whist') = Len(whist) + 1
          /\ whist'[Len(whist')].current_year >= whist[Len(whist)].current_year) =>
          LET before == whist[Len(whist)]
              after == whist'[Len(whist')]
          IN  /\ strategy'.current_age >= strategy.current_age
              /\ (RLt(Zero, before.returned) /\ RLt(Zero, after.returned)) =>
                     RLe(DivisorApplied(after), DivisorApplied(before))]_vars


\* C27: for the same calendar year, note table, requested protection level
\* and equity return, the note return the sweep computes inline equals the
\* note return the engine computes from the note terms it resolves.
C27_SweepAndEngineAgree ==
    compared.op = "note_return" => compared.sweep = compared.engine

\* C28: in every yearly record of a sweep run with year index >= 1 the ending
\* value is not negative, the withdrawal does not exceed the value before the
\* withdrawal, and ending value plus withdrawal is the sum of the equity, note
\* and bond values; in a depletion year (the amount due, the initial withdrawal
\* carried forward with inflation, is not covered by the value) the ending
\* value is 0 and the withdrawal recorded is exactly the value that was left.
AmountDue(i) ==
    IF yearly_results[i].year = 1
    THEN RMul(run_params.starting_amount, run_params.withdrawal_rate)
    ELSE RMul(yearly_results[i - 1].withdrawal_amount,
              RAdd(One, yearly_results[i].inflation_rate))

ValueBeforeWithdrawal(r) == RAdd(RAdd(r.equity_value, r.note_value), r.bond_value)

C28_YearlyRecordAccounts ==
    \A i \in DOMAIN yearly_results :
        LET r   == yearly_results[i]
            pre == ValueBeforeWithdrawal(r)
        IN  r.year >= 1 =>
                /\ RLe(Zero, r.ending_value)
                /\ RLe(r.withdrawal_amount, pre)
                /\ RAdd(r.ending_value, r.withdrawal_amount) = pre
                /\ RLe(pre, AmountDue(i)) =>
                       r.ending_value = Zero /\ r.withdrawal_amount = pre
                /\ ~RLe(pre, AmountDue(i)) => r.withdrawal_amount = AmountDue(i)

\* a completed run with a year that paid the amount due followed by a depletion
\* year in which less than the amount due was left
C28_Witness ==
    /\ run_status = "done"
    /\ \E i \in DOMAIN yearly_results :
           /\ yearly_results[i].year >= 2
           /\ RLt(Zero, ValueBeforeWithdrawal(yearly_results[i]))
           /\ RLt(ValueBeforeWithdrawal(yearly_results[i]), AmountDue(i))
           /\ RLt(Zero, yearly_results[i - 1].ending_value)
           /\ RLt(Zero, yearly_results[i - 1].withdrawal_amount)

\* C29: persisting one simulation is all-or-nothing.  At every point of a
\* sweep, and after it, every sim_id of table yearly_results has a row in table
\* simulations, every row of simulations has exactly the yearly rows of its
\* result, with the year indices 0..k, and a save that fails (on a duplicate
\* sim_id or on a failure of the store part-way) leaves the committed rows of
\* the store unchanged.
StoredYears(sim_id) == {y \in db.yearly_results : y.sim_id = sim_id}

FailedSave == saving # 0 /\ saving' = 0 /\ saving \notin saved'

StoreComplete ==
    /\ \A y \in db.yearly_results : \E s \in db.simulations : s.sim_id = y.sim_id
    /\ \A s \in db.simulations :
          \E i \in saved :
             /\ workers[i].result.sim_params.sim_id = s.sim_id
             /\ StoredYears(s.sim_id) = YearlyRows(workers[i].result)
             /\ {y.year : y \in StoredYears(s.sim_id)}
                    = 0..(Len(workers[i].result.yearly_results) - 1)
             /\ Cardinality(StoredYears(s.sim_id))
                    = Len(workers[i].result.yearly_results)

C29_SaveAllOrNothing == [](StoreComplete) /\ [][FailedSave => db' = db]_vars

\* a finished sweep in which one save failed on a duplicate sim_id, next to a
\* committed simulation with the rows of two years
C29_Witness ==
    /\ pool_pc = "finished"
    /\ \E i \in error_log :
          /\ workers[i].status = "returned"
          /\ IntegrityError(db, workers[i].result)
    /\ \E y \in db.yearly_results : y.year = 1

\* C30: one withdrawal-strategy instance serves every portfolio of a
\* PortfolioSimulation.  For an inflation-adjusted FixedPercentage strategy the
\* anchor is the value, after the returns of the first simulated year, of the
\* first portfolio processed, it stays that for the rest of the run, and the
\* withdrawal recorded for every portfolio in every year is anchor * rate *
\* (1 + inflation_rate) ^ (year - start_year), capped at the value that
\* portfolio had before the withdrawal.
ValueAfterReturns(year_result) ==
    RAdd(year_result.portfolio_value, year_result.withdrawal)

InflationAdjustedRun ==
    /\ simulation # NoObject
    /\ simulation.withdrawal_strategy # NoObject
    /\ simulation.withdrawal_strategy.class = "FixedPercentageWithdrawal"
    /\ simulation.withdrawal_strategy.inflation_adjusted

C30_OneAnchorForAllPortfolios ==
    InflationAdjustedRun =>
        LET st     == simulation.withdrawal_strategy
            first  == simulation.results[simulation.names[1]]
            anchor == st.initial_portfolio_value
        IN  /\ first # << >> => anchor = ValueAfterReturns(first[1])
            /\ \A name \in DOMAIN simulation.results :
                  \A k \in DOMAIN simulation.results[name] :
                     LET r == simulation.results[name][k]
                     IN  r.withdrawal =
                            PyMin(RMul(RMul(anchor, st.rate),
                                       RPow(RAdd(One, st.inflation_rate),
                                            r.year - st.start_year)),
                                  ValueAfterReturns(r))

\* a returned run of two years over two portfolios whose values after the
\* returns of the first year differ, the second one withdrawing in the first
\* year the uncapped amount computed from the first one's value, and in the
\* second year all it has, less than the amount computed from the anchor
C30_Witness ==
    /\ InflationAdjustedRun
    /\ loop.pc = "returned"
    /\ Len(simulation.names) = 2
    /\ LET first  == simulation.results[simulation.names[1]]
           second == simulation.results[simulation.names[2]]
       IN  /\ Len(first) = 2 /\ Len(second) = 2
           /\ ValueAfterReturns(first[1]) # ValueAfterReturns(second[1])
           /\ RLt(second[1].withdrawal, ValueAfterReturns(second[1]))
           /\ RLt(Zero, second[2].withdrawal)
           /\ second[2].portfolio_value = Zero
           /\ second[1].withdrawal =
                  RMul(ValueAfterReturns(first[1]), simulation.withdrawal_strategy.rate)
           /\ second[1].withdrawal #
                  RMul(ValueAfterReturns(second[1]), simulation.withdrawal_strategy.rate)

=============================================================================
